---- MODULE Spec2Model ----
(***************************************************************************)
(* Dependency-tracking core of the reactive state engine: observables,     *)
(* derivations, the per-run rebinding of dependencies, three-colour        *)
(* staleness propagation, batches and the unobservation queue.             *)
(*                                                                         *)
(* The heap is a record s = [obs, der, gs, val, rx, hist].  Functions of   *)
(* the source that call no user code are operators from heap to heap;      *)
(* functions that call user code (derivation bodies) are run step by step  *)
(* from an explicit call stack.                                            *)
(***************************************************************************)
EXTENDS Integers, Sequences, FiniteSets, TLC

\* ---------------------------------------------------------------- bounds
MaxVal == 1
MaxRunId == 6
MaxBatch == 2
MaxOps == 2
MaxHandlers == 2

\* ------------------------------------------------- IDerivationState (enum)
NOT_TRACKING == -1
UP_TO_DATE == 0
POSSIBLY_STALE == 1
STALE == 2

\* ----------------------------------------------------------------- nodes
Atoms == {"a", "b"}
Computeds == {"c", "d"}
Reactions == {"r", "s"}
Observables == Atoms \cup Computeds
Derivations == Computeds \cup Reactions
Values == 0..MaxVal
\* two objects with the same contents: equal deeply, different by reference
Boxes == {MaxVal + 1, MaxVal + 2}
AllValues == Values \cup Boxes
\* what an interceptor does with the change it is given: return it, return
\* one with another newValue, return null, return an object without a type
InterceptorKinds == {"pass", "bump", "reject", "bad"}
\* what a listener does: nothing but take the change, read the observable,
\* or throw
ListenerKinds == {"log", "read", "throw"}
\* what the action given to untracked does: read an observable value, or throw
UntrackedKinds == {"read", "throw"}
\* the value of a computed that holds no cached value
Undefined == -1
\* globalState.trackingDerivation === null, derivation.newObserving === null
Null == "null"
NullSeq == <<Null>>

isComputedValue(x) == x \in Computeds

\* ------------------------------------------------------------ exceptions
\* what is thrown: an error of the user's function, the invariant error of
\* checkIfStateModificationsAreAllowed, the invariant error of interceptChange
UserError == 1
StateChangeError == 2
InterceptError == 3
Causes == {UserError, StateChangeError, InterceptError}

\* new CaughtException(cause), as a value apart from every value and Undefined
CaughtException(cause) == -2 - cause
isCaughtException(v) == v <= -2
causeOf(v) == -2 - v

VARIABLES obs, der, gs, val, rx, hist, stack, ret, ev, env

vars == <<obs, der, gs, val, rx, hist, stack, ret, ev, env>>

Heap == [obs |-> obs, der |-> der, gs |-> gs, val |-> val, rx |-> rx, hist |-> hist]

\* ----------------------------------------------------- sequence helpers
Last(q) == q[Len(q)]
Front(q) == SubSeq(q, 1, Len(q) - 1)
Range(q) == {q[i] : i \in 1..Len(q)}
Min2(x, y) == IF x < y THEN x ELSE y

RECURSIVE Dedup(_)
Dedup(q) ==
  IF q = <<>> THEN <<>>
  ELSE LET f == Dedup(Front(q))
       IN IF Last(q) \in Range(f) THEN f ELSE Append(f, Last(q))

\* ------------------------------------------------------------ observable
hasObservers(s, o) == Len(s.obs[o].observers) > 0

\* min over the observers' dependenciesState, starting from 2 (invariantLOS)
RECURSIVE minObserverState(_, _, _)
minObserverState(s, o, i) ==
  IF i = 0 THEN 2
  ELSE Min2(minObserverState(s, o, i - 1),
            s.der[s.obs[o].observers[i]].dependenciesState)

invariantLOS(s, o) ==
  minObserverState(s, o, Len(s.obs[o].observers)) >= s.obs[o].lowestObserverState

\* the assertion sites of invariantLOS at the start and the end of the three
\* propagate functions; the outcome is kept in hist (losArg: the observable
\* the call is about, losAll: every observable at that moment)
noteLOS(s, o) ==
  [s EXCEPT !.hist.losArg = @ /\ invariantLOS(s, o),
            !.hist.losAll = @ /\ \A x \in Observables : invariantLOS(s, x)]

\* C8 mutant: an observable is queued only while a batch is open
queueForUnobservationInBatch(s, o) ==
  IF ~s.obs[o].isPendingUnobservation /\ s.gs.inBatch > 0
  THEN [s EXCEPT !.obs[o].isPendingUnobservation = TRUE,
                 !.gs.pendingUnobservations = Append(@, o)]
  ELSE s

\* C9 mutant: the flag is not looked at
queueForUnobservationAlways(s, o) ==
  [s EXCEPT !.obs[o].isPendingUnobservation = TRUE,
            !.gs.pendingUnobservations = Append(@, o)]

\* C10 mutant: the flag is not set
queueForUnobservationUnflagged(s, o) ==
  IF ~s.obs[o].isPendingUnobservation
  THEN [s EXCEPT !.gs.pendingUnobservations = Append(@, o)]
  ELSE s

queueForUnobservation(s, o) ==
  IF ~s.obs[o].isPendingUnobservation
  THEN [s EXCEPT !.obs[o].isPendingUnobservation = TRUE,
                 !.gs.pendingUnobservations = Append(@, o)]
  ELSE s

\* invariantObservers: the map holds the index of every observer but the
\* one at index 0, and nothing else (an index of 0 stands for no entry; the
\* list counts from 1 here)
invariantObservers(s, o) ==
  LET list == s.obs[o].observers
      map == s.obs[o].observersIndexes
  IN /\ \A i \in DOMAIN list : map[list[i]] = i - 1
     /\ list # <<>> => Cardinality({d \in Derivations : map[d] # 0}) = Len(list) - 1

\* (hist.observersOk: invariantObservers held after every addObserver of a
\* derivation that was not an observer and every removeObserver of one that
\* was, and no removal wrote beyond the end of the list)
noteObservers(s, t, o, called, inside) ==
  [t EXCEPT !.hist.observersOk = @ /\ (called => inside /\ invariantObservers(t, o))]

addObserver(s, o, node) ==
  LET l == Len(s.obs[o].observers)
      s1 == IF l # 0 THEN [s EXCEPT !.obs[o].observersIndexes[node] = l] ELSE s
      s2 == [s1 EXCEPT !.obs[o].observers = Append(@, node)]
  IN noteObservers(s,
       IF s2.obs[o].lowestObserverState > s2.der[node].dependenciesState
       THEN [s2 EXCEPT !.obs[o].lowestObserverState = s2.der[node].dependenciesState]
       ELSE s2,
       o, node \notin Range(s.obs[o].observers), TRUE)

\* C23 mutant: the observer that fills the place keeps its old index
removeObserverOldIndex(s, o, node) ==
  IF Len(s.obs[o].observers) = 1
  THEN queueForUnobservation([s EXCEPT !.obs[o].observers = <<>>,
                                       !.hist.lost = @ \cup ({o} \cap Computeds)], o)
  ELSE LET list == s.obs[o].observers
           map == s.obs[o].observersIndexes
           filler == Last(list)
           popped == Front(list)
           index == map[node]
           list1 == IF filler # node
                    THEN [i \in DOMAIN popped |-> IF i = index + 1 THEN filler ELSE popped[i]]
                    ELSE popped
       IN noteObservers(s,
            [s EXCEPT !.obs[o].observers = list1,
                      !.obs[o].observersIndexes = [map EXCEPT ![node] = 0]],
            o, node \in Range(list), TRUE)

\* list[index] = filler on a JavaScript array (index is 0-based)
setAt(list, index, x) ==
  IF index + 1 <= Len(list) THEN [list EXCEPT ![index + 1] = x] ELSE Append(list, x)

\* C1 mutant: the last element is popped, whichever observer leaves
removeObserverPop(s, o, node) ==
  IF Len(s.obs[o].observers) = 1
  THEN queueForUnobservation([s EXCEPT !.obs[o].observers = <<>>,
                                       !.hist.lost = @ \cup ({o} \cap Computeds)], o)
  ELSE [s EXCEPT !.obs[o].observers = Front(@),
                 !.obs[o].observersIndexes[node] = 0]

\* (hist.lost: the computed values whose last observer has left)
removeObserver(s, o, node) ==
  IF Len(s.obs[o].observers) = 1
  THEN noteObservers(s,
         queueForUnobservation([s EXCEPT !.obs[o].observers = <<>>,
                                         !.hist.lost = @ \cup ({o} \cap Computeds)], o),
         o, node \in Range(s.obs[o].observers), TRUE)
  ELSE LET list == s.obs[o].observers
           map == s.obs[o].observersIndexes
           filler == Last(list)
           popped == Front(list)
           index == map[node]
           map1 == IF filler # node
                   THEN [map EXCEPT ![filler] = index]
                   ELSE map
           list1 == IF filler # node THEN setAt(popped, index, filler) ELSE popped
       IN noteObservers(s,
            [s EXCEPT !.obs[o].observers = list1,
                      !.obs[o].observersIndexes = [map1 EXCEPT ![node] = 0]],
            o, node \in Range(list), filler = node \/ index < Len(popped))

\* ------------------------------------------------------------ derivation
RECURSIVE changeStateLoop(_, _, _)
changeStateLoop(s, d, i) ==
  IF i = 0 THEN s
  ELSE changeStateLoop(
         [s EXCEPT !.obs[s.der[d].observing[i]].lowestObserverState = UP_TO_DATE],
         d, i - 1)

\* C3 mutant: lowestObserverState of the dependencies is left as it is
changeDependenciesStateOnly(s, d) ==
  [s EXCEPT !.der[d].dependenciesState = UP_TO_DATE]

\* (hist.told: the derivations whose onBecomeStale was called since they were
\* last set to UP_TO_DATE)
changeDependenciesStateTo0(s, d) ==
  IF s.der[d].dependenciesState = UP_TO_DATE THEN s
  ELSE changeStateLoop([s EXCEPT !.der[d].dependenciesState = UP_TO_DATE,
                                 !.hist.told = @ \ {d}],
                       d, Len(s.der[d].observing))

RECURSIVE clearLoop(_, _, _, _)
clearLoop(s, d, list, i) ==
  IF i = 0 THEN s
  ELSE clearLoop(removeObserver(s, list[i], d), d, list, i - 1)

\* C20 mutant: the observables keep the derivation among their observers
clearObservingOneSided(s, d) ==
  [s EXCEPT !.der[d].dependenciesState = NOT_TRACKING,
            !.der[d].observing = <<>>]

clearObserving(s, d) ==
  LET s1 == clearLoop(s, d, s.der[d].observing, Len(s.der[d].observing))
  IN [s1 EXCEPT !.der[d].dependenciesState = NOT_TRACKING,
                !.der[d].observing = <<>>]

\* C2 mutant: every occurrence is kept
bindKeepAll(s, list, i, kept) ==
  [s |-> [s EXCEPT !.obs = [o \in Observables |->
                              IF o \in Range(list) THEN [@[o] EXCEPT !.diffValue = 1]
                              ELSE @[o]]],
   kept |-> list]

\* first loop of bindDependencies: keep the first occurrence of every
\* observable of newObserving[0 .. unboundDepsCount), marking it diffValue 1
RECURSIVE bindKeep(_, _, _, _)
bindKeep(s, list, i, kept) ==
  IF i > Len(list) THEN [s |-> s, kept |-> kept]
  ELSE IF s.obs[list[i]].diffValue = 0
       THEN bindKeep([s EXCEPT !.obs[list[i]].diffValue = 1], list, i + 1,
                     Append(kept, list[i]))
       ELSE bindKeep(s, list, i + 1, kept)

\* C7 mutant: no old observable is unobserved
bindDropNone(s, d, prevObserving, l) ==
  [s EXCEPT !.obs = [o \in Observables |->
                       IF o \in Range(prevObserving) THEN [@[o] EXCEPT !.diffValue = 0]
                       ELSE @[o]]]

\* second loop: the old observables, back to front
RECURSIVE bindDrop(_, _, _, _)
bindDrop(s, d, prevObserving, l) ==
  IF l = 0 THEN s
  ELSE LET dep == prevObserving[l]
           s1 == IF s.obs[dep].diffValue = 0 THEN removeObserver(s, dep, d) ELSE s
       IN bindDrop([s1 EXCEPT !.obs[dep].diffValue = 0], d, prevObserving, l - 1)

\* third loop: the new observables, back to front
RECURSIVE bindAdd(_, _, _, _)
bindAdd(s, d, observing, i0) ==
  IF i0 = 0 THEN s
  ELSE LET dep == observing[i0]
           s1 == IF s.obs[dep].diffValue = 1
                 THEN addObserver([s EXCEPT !.obs[dep].diffValue = 0], dep, d)
                 ELSE s
       IN bindAdd(s1, d, observing, i0 - 1)

bindDependencies(s, d) ==
  LET prevObserving == s.der[d].observing
      fresh == SubSeq(s.der[d].newObserving, 1, s.der[d].unboundDepsCount)
      k == bindKeep(s, fresh, 1, <<>>)
      s1 == [k.s EXCEPT !.der[d].observing = k.kept,
                        !.der[d].newObserving = NullSeq]
      s2 == bindDrop(s1, d, prevObserving, Len(prevObserving))
  IN bindAdd(s2, d, k.kept, Len(k.kept))

untrackedStart(s) == [s EXCEPT !.gs.trackingDerivation = Null]

untrackedEnd(s, prev) == [s EXCEPT !.gs.trackingDerivation = prev]

\* what reportObserved(o) may do to s when no derivation is tracking:
\* nothing, or queue o, which has no observers, for unobservation
untrackedEffect(s, t, o) ==
  /\ t.der = s.der
  /\ t.val = s.val
  /\ t.rx = s.rx
  /\ \/ t.obs = s.obs /\ t.gs = s.gs
     \/ /\ Len(s.obs[o].observers) = 0
        /\ ~s.obs[o].isPendingUnobservation
        /\ t.obs = [s.obs EXCEPT ![o].isPendingUnobservation = TRUE]
        /\ t.gs = [s.gs EXCEPT !.pendingUnobservations = Append(@, o)]

\* (hist.untracked: every call without a tracking derivation had that effect)
noteUntracked(s, t, o) ==
  [t EXCEPT !.hist.untracked = @ /\ (s.gs.trackingDerivation = Null => untrackedEffect(s, t, o))]

\* C22 mutant: the observable is stamped with the last run also when no
\* derivation is tracking
reportObservedStamping(s, o) ==
  LET derivation == s.gs.trackingDerivation
  IN noteUntracked(s,
       IF derivation # Null
       THEN IF s.der[derivation].runId # s.obs[o].lastAccessedBy
            THEN [s EXCEPT !.obs[o].lastAccessedBy = s.der[derivation].runId,
                           !.der[derivation].newObserving = Append(@, o),
                           !.der[derivation].unboundDepsCount = @ + 1]
            ELSE s
       ELSE [s EXCEPT !.obs[o].lastAccessedBy = s.gs.runId],
       o)

reportObserved(s, o) ==
  LET derivation == s.gs.trackingDerivation
  IN noteUntracked(s,
       IF derivation # Null
       THEN IF s.der[derivation].runId # s.obs[o].lastAccessedBy
            THEN [s EXCEPT !.obs[o].lastAccessedBy = s.der[derivation].runId,
                           !.der[derivation].newObserving = Append(@, o),
                           !.der[derivation].unboundDepsCount = @ + 1]
            ELSE s
       ELSE IF Len(s.obs[o].observers) = 0
            THEN queueForUnobservation(s, o)
            ELSE s,
       o)

startBatch(s) == [s EXCEPT !.gs.inBatch = @ + 1]

\* --------------------------------------------------- reactions: schedule
\* Reaction.schedule up to its call of runReactions: push once, guarded by
\* the _isScheduled flag.
\* (hist.enq: the reactions pushed, in the order of the pushes)
\* C19 mutant: the reaction is put at the front of the queue
scheduleFront(s, r) ==
  IF ~s.rx[r].isScheduled
  THEN [s EXCEPT !.rx[r].isScheduled = TRUE,
                 !.gs.pendingReactions = <<r>> \o @,
                 !.hist.enq = Append(@, r)]
  ELSE s

schedule(s, r) ==
  IF ~s.rx[r].isScheduled
  THEN [s EXCEPT !.rx[r].isScheduled = TRUE,
                 !.gs.pendingReactions = Append(@, r),
                 !.hist.enq = Append(@, r)]
  ELSE s

\* ----------------------------------------------------------- propagation
RECURSIVE propagateMaybeChanged(_, _)
RECURSIVE maybeLoop(_, _, _, _)

\* derivation.onBecomeStale(): a computed value passes POSSIBLY_STALE on,
\* a reaction schedules itself
\* (the runReactions call of schedule returns at once inside a batch;
\* strayFlush notes a call made outside every batch)
\* (hist.toldOk: every call found the derivation not yet told since it was
\* last UP_TO_DATE; hist.toldRun: the derivations told since their last run;
\* hist.toldTwice: one of them was told again before it ran; a run is a
\* call of trackDerivedFunction or of Reaction.runReaction)
noteTold(s, d) ==
  [s EXCEPT !.hist.toldOk = @ /\ d \notin s.hist.told
                              /\ s.der[d].dependenciesState \in {UP_TO_DATE, POSSIBLY_STALE},
            !.hist.told = @ \cup {d},
            !.hist.toldTwice = @ \/ d \in s.hist.toldRun,
            !.hist.toldRun = @ \cup {d}]

onBecomeStale(s, d) ==
  IF isComputedValue(d) THEN propagateMaybeChanged(noteTold(s, d), d)
  ELSE schedule([noteTold(s, d) EXCEPT !.hist.strayFlush =
                            @ \/ (s.gs.inBatch = 0 /\ ~s.gs.isRunningReactions)], d)

\* (hist.rises: no propagation call has left a derivation with a lower
\* dependenciesState than it found; hist.allStale: every propagateChanged
\* call has left every observer of its observable STALE)
\* (hist.noLock: every propagateChangeConfirmed call that has left an
\* UP_TO_DATE observer has left lowestObserverState UP_TO_DATE;
\* hist.noneFresh: no propagateChanged or propagateMaybeChanged call has left
\* an UP_TO_DATE observer)
noteProp(s, t, o, kind) ==
  LET fresh == \E d \in Range(t.obs[o].observers) :
                 t.der[d].dependenciesState = UP_TO_DATE
  IN [t EXCEPT !.hist.rises = @ /\ \A d \in Derivations :
                                     t.der[d].dependenciesState >= s.der[d].dependenciesState,
               !.hist.allStale = @ /\ (kind = "changed" =>
                                        \A d \in Range(t.obs[o].observers) :
                                          t.der[d].dependenciesState = STALE),
               !.hist.noLock = @ /\ (kind = "confirmed" /\ fresh =>
                                      t.obs[o].lowestObserverState = UP_TO_DATE),
               !.hist.noneFresh = @ /\ (kind # "confirmed" => ~fresh)]

\* C24 mutant: every observer that is not POSSIBLY_STALE is set to it
RECURSIVE maybeLoopLowering(_, _, _, _)
maybeLoopLowering(s, o, observers, i) ==
  IF i = 0 THEN s
  ELSE LET d == observers[i]
       IN IF s.der[d].dependenciesState = UP_TO_DATE
          THEN maybeLoopLowering(onBecomeStale([s EXCEPT !.der[d].dependenciesState = POSSIBLY_STALE], d),
                                 o, observers, i - 1)
          ELSE maybeLoopLowering([s EXCEPT !.der[d].dependenciesState = POSSIBLY_STALE],
                                 o, observers, i - 1)

\* C6 mutant: the observers of a computed value are marked STALE at once
RECURSIVE maybeLoopStale(_, _, _, _)
maybeLoopStale(s, o, observers, i) ==
  IF i = 0 THEN s
  ELSE LET d == observers[i]
       IN IF s.der[d].dependenciesState = UP_TO_DATE
          THEN maybeLoopStale(onBecomeStale([s EXCEPT !.der[d].dependenciesState = STALE], d),
                              o, observers, i - 1)
          ELSE maybeLoopStale(s, o, observers, i - 1)

maybeLoop(s, o, observers, i) ==
  IF i = 0 THEN s
  ELSE LET d == observers[i]
       IN IF s.der[d].dependenciesState = UP_TO_DATE
          THEN maybeLoop(onBecomeStale([s EXCEPT !.der[d].dependenciesState = POSSIBLY_STALE], d),
                         o, observers, i - 1)
          ELSE maybeLoop(s, o, observers, i - 1)

propagateMaybeChanged(s, o) ==
  LET s0 == noteLOS(s, o)
  IN noteProp(s,
       IF s0.obs[o].lowestObserverState # UP_TO_DATE THEN s0
       ELSE noteLOS(maybeLoop([s0 EXCEPT !.obs[o].lowestObserverState = POSSIBLY_STALE],
                              o, s0.obs[o].observers, Len(s0.obs[o].observers)), o),
       o, "maybe")

RECURSIVE changedLoop(_, _, _, _)
changedLoop(s, o, observers, i) ==
  IF i = 0 THEN s
  ELSE LET d == observers[i]
           s1 == IF s.der[d].dependenciesState = UP_TO_DATE THEN onBecomeStale(s, d) ELSE s
       IN changedLoop([s1 EXCEPT !.der[d].dependenciesState = STALE], o, observers, i - 1)

\* C5 mutant: the observers are marked STALE and not told
propagateChangedQuiet(s, o) ==
  [s EXCEPT !.obs[o].lowestObserverState = STALE,
            !.der = [d \in Derivations |->
                       IF d \in Range(s.obs[o].observers)
                       THEN [@[d] EXCEPT !.dependenciesState = STALE]
                       ELSE @[d]]]

propagateChanged(s, o) ==
  LET s0 == noteLOS(s, o)
  IN noteProp(s,
       IF s0.obs[o].lowestObserverState = STALE THEN s0
       ELSE noteLOS(changedLoop([s0 EXCEPT !.obs[o].lowestObserverState = STALE],
                                o, s0.obs[o].observers, Len(s0.obs[o].observers)), o),
       o, "changed")

\* C25 mutant: lowestObserverState stays STALE whatever the observers are
RECURSIVE confirmedLoopLocking(_, _, _, _)
confirmedLoopLocking(s, o, observers, i) ==
  IF i = 0 THEN s
  ELSE LET d == observers[i]
       IN IF s.der[d].dependenciesState = POSSIBLY_STALE
          THEN confirmedLoopLocking([s EXCEPT !.der[d].dependenciesState = STALE],
                                    o, observers, i - 1)
          ELSE confirmedLoopLocking(s, o, observers, i - 1)

RECURSIVE confirmedLoop(_, _, _, _)
confirmedLoop(s, o, observers, i) ==
  IF i = 0 THEN s
  ELSE LET d == observers[i]
       IN IF s.der[d].dependenciesState = POSSIBLY_STALE
          THEN confirmedLoop([s EXCEPT !.der[d].dependenciesState = STALE], o, observers, i - 1)
          ELSE IF s.der[d].dependenciesState = UP_TO_DATE
               THEN confirmedLoop([s EXCEPT !.obs[o].lowestObserverState = UP_TO_DATE],
                                  o, observers, i - 1)
               ELSE confirmedLoop(s, o, observers, i - 1)

propagateChangeConfirmed(s, o) ==
  LET s0 == noteLOS(s, o)
  IN noteProp(s,
       IF s0.obs[o].lowestObserverState = STALE THEN s0
       ELSE noteLOS(confirmedLoop([s0 EXCEPT !.obs[o].lowestObserverState = STALE],
                                  o, s0.obs[o].observers, Len(s0.obs[o].observers)), o),
       o, "confirmed")

\* ------------------------------------------------- bodies of computeds
\* The function of a computed value is a straight-line program over the
\* observables: get x reads x, ifz n skips the next n instructions when the
\* value last read is 0; the result is the minimum of the values read
\* ("min") or the value last read ("last").
Get(x) == [op |-> "get", x |-> x, n |-> 0]
Ifz(n) == [op |-> "ifz", x |-> Null, n |-> n]
\* throws UserError when the value last read is 0
Throwz == [op |-> "throwz", x |-> Null, n |-> 0]
\* x.set(v)
Put(x, v) == [op |-> "put", x |-> x, n |-> v]

\* c := min(a, b), d := min(a, c, a): a diamond below a; d reads a, then c
\* (whose nested run reads a), then a again
Diamond ==
  [c |-> [code |-> <<Get("a"), Get("b")>>, fn |-> "min"],
   d |-> [code |-> <<Get("a"), Get("c"), Get("a")>>, fn |-> "min"]]

\* c := a = 0 ? 0 : b, d := c: c reads b only while a is not 0
Dynamic ==
  [c |-> [code |-> <<Get("a"), Ifz(1), Get("b")>>, fn |-> "last"],
   d |-> [code |-> <<Get("c")>>, fn |-> "last"]]

\* c := a = 0 ? throw : b, d := (b, c): c throws while a is 0, and d with it
Throwing ==
  [c |-> [code |-> <<Get("a"), Throwz, Get("b")>>, fn |-> "last"],
   d |-> [code |-> <<Get("b"), Get("c")>>, fn |-> "last"]]

\* c := (a, b.set(1)), d := c: the function of c writes b
Writing ==
  [c |-> [code |-> <<Get("a"), Put("b", 1)>>, fn |-> "last"],
   d |-> [code |-> <<Get("c")>>, fn |-> "last"]]

\* c := a, d := c: a tower above a
Tower ==
  [c |-> [code |-> <<Get("a")>>, fn |-> "last"],
   d |-> [code |-> <<Get("c")>>, fn |-> "last"]]

\* ------------------------------------------------------- environments
\* What the code around the engine does: the functions of the computeds,
\* which reactions are created, what a reaction body may read and write,
\* what the caller sets and reads, how deep it nests batches, whether it disposes,
\* and how many derivation runs are followed.
NoneOf(S) == [r \in S |-> {}]

\* what an environment does not do unless it says so: no reaction body throws,
\* catches what a call throws, calls untracked or calls notifyListeners itself;
\* it registers no interceptor and no listener, does not turn strict mode
\* on, writes plain values, and its observable values have the reference
\* enhancer
Plain ==
  [rthrows |-> {}, ikinds |-> {}, lkinds |-> {}, fires |-> {FALSE}, hatoms |-> {},
   robserve |-> {}, strict |-> FALSE, uvals |-> Values, enhancer |-> "ref",
   once |-> FALSE, logs |-> TRUE,
   rcatches |-> {}, runtracked |-> {}, rnotify |-> {}]

\* a reaction with a free body over a, b and c, writing a
EnvFree ==
  [progs |-> Diamond, autoruns |-> {"r"},
   rreads |-> [r \in Reactions |-> {"a", "b", "c"}],
   rwrites |-> [r \in Reactions |-> {"a"}],
   usets |-> {"a"}, ugets |-> {}, batches |-> MaxBatch - 1, dispose |-> FALSE,
   runs |-> MaxRunId - 2] @@ Plain

\* a reaction below the diamond: r reads d, the caller writes a and b in
\* nested batches
EnvChain ==
  [progs |-> Diamond, autoruns |-> {"r"},
   rreads |-> [r \in Reactions |-> {"d"}],
   rwrites |-> NoneOf(Reactions),
   usets |-> {"a", "b"}, ugets |-> {}, batches |-> MaxBatch, dispose |-> FALSE,
   runs |-> MaxRunId] @@ Plain

\* a reaction on an atom and on the computed value with a dynamic dependency
EnvDynamic ==
  [progs |-> Dynamic, autoruns |-> {"r"},
   rreads |-> [r \in Reactions |-> {"a", "c"}],
   rwrites |-> NoneOf(Reactions),
   usets |-> {"a", "b"}, ugets |-> {}, batches |-> MaxBatch - 1, dispose |-> FALSE,
   runs |-> MaxRunId - 2] @@ Plain

\* observers come and go: two reactions on c, disposals, reads by the caller
EnvUnobserve ==
  [progs |-> Diamond, autoruns |-> {"r", "s"},
   rreads |-> [r \in Reactions |-> {"c"}],
   rwrites |-> NoneOf(Reactions),
   usets |-> {}, ugets |-> {"a", "c"}, batches |-> MaxBatch - 1, dispose |-> TRUE,
   runs |-> MaxRunId - 3] @@ Plain

\* functions that throw: c throws while a is 0; the reaction reads c and may
\* throw by itself; the caller reads d
EnvThrow ==
  [progs |-> Throwing, autoruns |-> {"r"},
   rreads |-> [r \in Reactions |-> {"c"}],
   rwrites |-> NoneOf(Reactions),
   usets |-> {"a", "b"}, ugets |-> {"d"}, batches |-> MaxBatch - 1, dispose |-> FALSE,
   runs |-> MaxRunId - 3, rthrows |-> {"r"}] @@ Plain

\* interceptors on a: the caller writes a, r reads a, s writes a
EnvIntercept ==
  [progs |-> Diamond, autoruns |-> {"r", "s"},
   rreads |-> [r \in Reactions |-> IF r = "r" THEN {"a"} ELSE {}],
   rwrites |-> [r \in Reactions |-> IF r = "s" THEN {"a"} ELSE {}],
   usets |-> {"a"}, ugets |-> {}, batches |-> MaxBatch - 1, dispose |-> FALSE,
   runs |-> MaxRunId - 3,
   ikinds |-> {"reject", "bad"}, lkinds |-> {"read"}, hatoms |-> {"a"}] @@ Plain

\* a computed value that writes: c writes b, r reads c and d, the caller
\* writes a and reads c
EnvPut ==
  [progs |-> Writing, autoruns |-> {"r"},
   rreads |-> [r \in Reactions |-> {"c", "d"}],
   rwrites |-> NoneOf(Reactions),
   usets |-> {"a"}, ugets |-> {"c"}, batches |-> MaxBatch - 1, dispose |-> FALSE,
   runs |-> MaxRunId - 2] @@ Plain

\* observable values with the struct enhancer: the caller writes 0 and two
\* objects that are equal deeply, and may turn strict mode on; a has an
\* interceptor and a listener, r reads a
EnvStruct ==
  [progs |-> Diamond, autoruns |-> {"r"},
   rreads |-> [r \in Reactions |-> {"a"}],
   rwrites |-> NoneOf(Reactions),
   usets |-> {"a"}, ugets |-> {}, batches |-> MaxBatch - 1, dispose |-> FALSE,
   runs |-> MaxRunId - 2,
   ikinds |-> {"pass"}, lkinds |-> {"log"}, hatoms |-> {"a"}, uvals |-> {0} \cup Boxes,
   enhancer |-> "struct", strict |-> TRUE] @@ Plain

\* listeners on a: the caller writes a through interceptors that hand the
\* change on, r reads a
EnvListen ==
  [progs |-> Diamond, autoruns |-> {"r"},
   rreads |-> [r \in Reactions |-> {"a"}],
   rwrites |-> NoneOf(Reactions),
   usets |-> {"a"}, ugets |-> {}, batches |-> MaxBatch - 1, dispose |-> FALSE,
   runs |-> MaxRunId - 3,
   ikinds |-> {"pass", "bump"}, lkinds |-> {"log", "read"}, hatoms |-> {"a"}] @@ Plain

\* observe with fireImmediately: by the caller, and by s in its function; s
\* reads nothing itself, the listener reads a
EnvObserve ==
  [progs |-> Diamond, autoruns |-> {"s"},
   rreads |-> NoneOf(Reactions),
   rwrites |-> NoneOf(Reactions),
   usets |-> {"a"}, ugets |-> {}, batches |-> MaxBatch - 1, dispose |-> FALSE,
   runs |-> MaxRunId - 3,
   lkinds |-> {"log", "read"}, fires |-> {TRUE}, hatoms |-> {"a"},
   robserve |-> {"s"}] @@ Plain

\* two reactions in one queue: r reads a and writes b, s reads b, the caller
\* writes a and b in a batch; every write writes 1
EnvFifo ==
  [progs |-> Diamond, autoruns |-> {"r", "s"},
   rreads |-> [r \in Reactions |-> IF r = "r" THEN {"a"} ELSE {"b"}],
   rwrites |-> [r \in Reactions |-> IF r = "r" THEN {"b"} ELSE {}],
   usets |-> {"a", "b"}, ugets |-> {}, batches |-> MaxBatch - 1, dispose |-> FALSE,
   runs |-> MaxRunId - 2, uvals |-> {1}] @@ Plain

\* a reaction on a and c that the caller disposes, also while it is queued
EnvDispose ==
  [progs |-> Diamond, autoruns |-> {"r"},
   rreads |-> [r \in Reactions |-> {"a", "c"}],
   rwrites |-> NoneOf(Reactions),
   usets |-> {"a"}, ugets |-> {}, batches |-> MaxBatch - 1, dispose |-> TRUE,
   runs |-> MaxRunId - 2] @@ Plain

\* the reentrancy budget of the reaction drain
MAX_REACTION_ITERATIONS == 100

\* a reaction that reads a and writes a: it can make itself stale in every
\* run, as often as runReactions lets it
EnvCyclic ==
  [progs |-> Diamond, autoruns |-> {"r"},
   rreads |-> [r \in Reactions |-> {"a"}],
   rwrites |-> [r \in Reactions |-> {"a"}],
   usets |-> {"a"}, ugets |-> {}, batches |-> 0, dispose |-> FALSE,
   runs |-> MAX_REACTION_ITERATIONS, once |-> TRUE,
   logs |-> FALSE] @@ Plain

\* a reaction above a tower: r reads a, c and d in any order, the caller
\* writes a
EnvTower ==
  [progs |-> Tower, autoruns |-> {"r"},
   rreads |-> [r \in Reactions |-> {"a", "c", "d"}],
   rwrites |-> NoneOf(Reactions),
   usets |-> {"a"}, ugets |-> {}, batches |-> 0, dispose |-> FALSE,
   runs |-> MaxRunId, logs |-> FALSE] @@ Plain

\* exceptions under an untracked scope: a has a listener that throws; r
\* reads b, writes a, calls untracked with an action that reads b or throws,
\* calls notifyListeners itself, and catches what these calls throw
EnvLeak ==
  [progs |-> Diamond, autoruns |-> {"r"},
   rreads |-> [r \in Reactions |-> {"b"}],
   rwrites |-> [r \in Reactions |-> {"a"}],
   usets |-> {"b"}, ugets |-> {}, batches |-> 0, dispose |-> FALSE,
   runs |-> MaxRunId - 4, uvals |-> {1},
   lkinds |-> {"log", "throw"}, hatoms |-> {"a"},
   rcatches |-> {"r"}, runtracked |-> {"r"}, rnotify |-> {"r"},
   logs |-> FALSE] @@ Plain

Envs ==
  {EnvFree, EnvChain, EnvDynamic, EnvUnobserve, EnvThrow, EnvIntercept, EnvPut, EnvStruct,
   EnvListen, EnvObserve, EnvFifo, EnvDispose, EnvCyclic, EnvTower,
   EnvLeak}

initAcc(fn) == IF fn = "min" THEN MaxVal ELSE 0
apply(fn, acc, v) == IF fn = "min" THEN Min2(acc, v) ELSE v

\* the value the function of computed x yields on the atoms' values vals
RECURSIVE trueVal(_, _, _)
RECURSIVE evalCode(_, _, _, _, _, _)
evalCode(p, vals, x, i, acc, last) ==
  IF i > Len(p[x].code) THEN acc
  ELSE CASE p[x].code[i].op = "ifz" ->
              evalCode(p, vals, x, IF last = 0 THEN i + 1 + p[x].code[i].n ELSE i + 1, acc, last)
         [] p[x].code[i].op = "throwz" ->
              IF last = 0 THEN CaughtException(UserError)
              ELSE evalCode(p, vals, x, i + 1, acc, last)
         [] p[x].code[i].op = "put" -> CaughtException(StateChangeError)
         [] OTHER ->
              LET v == trueVal(p, vals, p[x].code[i].x)
              IN IF isCaughtException(v) THEN v
                 ELSE evalCode(p, vals, x, i + 1, apply(p[x].fn, acc, v), v)

trueVal(p, vals, y) ==
  IF y \in Atoms THEN vals[y] ELSE evalCode(p, vals, y, 1, initAcc(p[y].fn), 0)

\* ------------------------------------------------------- call stack
\* A frame is one activation of a function that calls user code.  The top
\* of the stack is its head.
Frame(fn, node) ==
  [fn |-> fn, pc |-> "start", node |-> node, i |-> 0, prev |-> Null,
   acc |-> 0, last |-> 0, list |-> <<>>, flag |-> FALSE, call |-> 0]

top == Head(stack)
rest == Tail(stack)
Idle == stack = <<>>
At(fn, pc) == stack # <<>> /\ top.fn = fn /\ top.pc = pc

NoRet == [kind |-> "none", v |-> 0]
RetVal(v) == [kind |-> "val", v |-> v]
RetBool(b) == [kind |-> "bool", v |-> IF b THEN 1 ELSE 0]
\* the call did not return: it threw cause
RetThrow(cause) == [kind |-> "throw", v |-> cause]

\* the last step taken, for the properties that speak of one call
Event(type, node) ==
  [type |-> type, node |-> node, reads |-> <<>>, pre |-> <<>>, n |-> 0, v |-> 0, snap |-> <<>>]

Commit(s, stk, r, e) ==
  /\ obs' = s.obs
  /\ der' = s.der
  /\ gs' = s.gs
  /\ val' = s.val
  /\ rx' = s.rx
  /\ hist' = s.hist
  /\ stack' = stk
  /\ ret' = r
  /\ ev' = e
  /\ env' = env

\* hist: what has happened so far, kept for the properties only
InitHist ==
  [losArg |-> TRUE, losAll |-> TRUE, strayFlush |-> FALSE, userDepth |-> 0,
   unobs |-> [o \in Observables |-> 0],
   drainUnobs |-> [o \in Observables |-> 0],
   owed |-> {}, lost |-> {}, dirty |-> {}, wasDirty |-> {}, written |-> {},
   reported |-> {}, threw |-> {}, recovered |-> {},
   log |-> <<>>, calls |-> 0, heard |-> {}, enq |-> <<>>, started |-> <<>>,
   again |-> {}, wrote |-> FALSE, cyclic |-> FALSE, untracked |-> TRUE,
   observersOk |-> TRUE,
   told |-> {}, toldRun |-> {}, toldOk |-> TRUE, toldTwice |-> FALSE,
   spared |-> {},
   rises |-> TRUE, allStale |-> TRUE, noLock |-> TRUE, noneFresh |-> TRUE,
   ran |-> [r \in Reactions |-> 0],
   everRead |-> [d \in Derivations |-> {}]]

\* an operation called from outside every batch opens a new outermost batch
beginOp(s) ==
  IF s.gs.inBatch = 0
  THEN [s EXCEPT !.hist.unobs = [o \in Observables |-> 0],
                 !.hist.drainUnobs = [o \in Observables |-> 0],
                 !.hist.owed = {}, !.hist.lost = {}, !.hist.wasDirty = {},
                 !.hist.written = {}, !.hist.ran = [r \in Reactions |-> 0],
                 !.hist.log = <<>>, !.hist.calls = 0,
                 !.hist.enq = <<>>, !.hist.started = <<>>, !.hist.cyclic = FALSE,
                 !.hist.toldTwice = FALSE]
  ELSE [s EXCEPT !.hist.log = <<>>, !.hist.calls = 0]

Init ==
  /\ obs = [o \in Observables |->
              [observers |-> <<>>,
               observersIndexes |-> [d \in Derivations |-> 0],
               lowestObserverState |-> IF o \in Atoms THEN NOT_TRACKING ELSE UP_TO_DATE,
               lastAccessedBy |-> 0,
               diffValue |-> 0,
               isPendingUnobservation |-> FALSE,
               interceptors |-> <<>>,
               changeListeners |-> <<>>]]
  /\ der = [d \in Derivations |->
              [observing |-> <<>>,
               newObserving |-> NullSeq,
               dependenciesState |-> NOT_TRACKING,
               runId |-> 0,
               unboundDepsCount |-> 0]]
  /\ gs = [trackingDerivation |-> Null, runId |-> 0, inBatch |-> 0,
           pendingReactions |-> <<>>, pendingUnobservations |-> <<>>,
           allowStateChanges |-> TRUE, isRunningReactions |-> FALSE]
  /\ val = [o \in Observables |-> IF o \in Atoms THEN 0 ELSE Undefined]
  /\ rx = [r \in Reactions |-> [isScheduled |-> FALSE, isDisposed |-> FALSE, created |-> FALSE]]
  /\ hist = InitHist
  /\ stack = <<>>
  /\ ret = NoRet
  /\ ev = Event("init", Null)
  /\ env \in Envs

\* ------------------------------------------------------ user operations
UserStartBatch ==
  /\ Idle
  /\ gs.inBatch < env.batches
  /\ LET s0 == beginOp(Heap)
     IN Commit(startBatch([s0 EXCEPT !.hist.userDepth = @ + 1]), <<>>, NoRet,
               Event("startBatch", Null))

UserEndBatch ==
  /\ Idle
  /\ gs.inBatch > 0
  /\ Commit([Heap EXCEPT !.hist.userDepth = @ - 1], <<Frame("endBatch", Null)>>, NoRet,
            Event("call", Null))

\* (env.once: the caller writes once and then leaves the reactions alone)
UserSet(a, v) ==
  /\ Idle
  /\ a \in env.usets
  /\ v \in env.uvals
  /\ ~(env.once /\ hist.wrote)
  /\ Commit([beginOp(Heap) EXCEPT !.hist.wrote = env.once],
            <<[Frame("set", a) EXCEPT !.acc = v]>>, NoRet, Event("call", a))

\* atom.get() outside every derivation
UserGetAtom(a) ==
  /\ Idle
  /\ a \in env.ugets
  /\ Commit(reportObserved(beginOp(Heap), a), <<>>, NoRet, Event("getAtom", a))

UserGetComputed(c) ==
  /\ Idle
  /\ c \in env.ugets
  /\ Commit(beginOp(Heap), <<Frame("get", c)>>, NoRet, Event("call", c))

\* autorun: create the reaction and schedule it; schedule ends in
\* runReactions, which returns at once inside a batch
UserAutorun(r) ==
  /\ Idle
  /\ r \in env.autoruns
  /\ ~rx[r].created
  /\ LET s0 == beginOp(Heap)
         s1 == schedule([s0 EXCEPT !.rx[r].created = TRUE], r)
     IN Commit(s1,
               IF s1.gs.inBatch > 0 \/ s1.gs.isRunningReactions
               THEN <<>> ELSE <<Frame("runReactions", Null)>>,
               NoRet, Event("autorun", r))

\* the program state, for comparing it before and after a call
Snapshot(s) == [obs |-> s.obs, der |-> s.der, val |-> s.val, gs |-> s.gs, rx |-> s.rx]

\* Reaction.dispose outside its own run: mark, then clearObserving in a batch;
\* nothing is done when the reaction is disposed already
UserDispose(r) ==
  /\ Idle
  /\ env.dispose
  /\ rx[r].created
  /\ LET s0 == beginOp(Heap)
     IN IF rx[r].isDisposed
        THEN Commit([s0 EXCEPT !.hist.again = @ \cup {r}], <<>>, NoRet,
                    [Event("disposeAgain", r) EXCEPT !.snap = Snapshot(Heap)])
        ELSE LET s1 == clearObserving(startBatch([s0 EXCEPT !.rx[r].isDisposed = TRUE]), r)
             IN Commit(s1, <<Frame("endBatch", Null)>>, NoRet,
                       [Event("dispose", r) EXCEPT !.snap = Snapshot(Heap)])

\* ------------------------------------------------- ObservableValue.set
\* what the calls of set have called since the operation of the caller
\* began, in order (call: the number of the call of set, 0 for none); not
\* kept in the environment of the hundred iterations
logged(s, call, what, node, n, old, new) ==
  IF ~env.logs THEN s
  ELSE
  [s EXCEPT !.hist.log = Append(@, [call |-> call, what |-> what, node |-> node, n |-> n,
                                    old |-> old, new |-> new,
                                    tracking |-> s.gs.trackingDerivation])]

hasInterceptors(s, a) == Len(s.obs[a].interceptors) > 0
hasListeners(s, a) == Len(s.obs[a].changeListeners) > 0
registerInterceptor(s, a, handler) == [s EXCEPT !.obs[a].interceptors = Append(@, handler)]
registerListener(s, a, handler) == [s EXCEPT !.obs[a].changeListeners = Append(@, handler)]

\* interceptors[i](change): the change an interceptor of each kind returns
\* (truthy: it is an object, typed: it has a type field)
interceptorResult(kind, newValue) ==
  CASE kind = "pass" -> [truthy |-> TRUE, typed |-> TRUE, newValue |-> newValue]
    [] kind = "bump" -> [truthy |-> TRUE, typed |-> TRUE, newValue |-> (newValue + 1) % (MaxVal + 1)]
    [] kind = "reject" -> [truthy |-> FALSE, typed |-> FALSE, newValue |-> newValue]
    [] OTHER -> [truthy |-> TRUE, typed |-> FALSE, newValue |-> newValue]

\* the loop of interceptChange: the invariant, then the break on a falsy change
RECURSIVE interceptLoop(_, _, _, _, _)
interceptLoop(s, a, interceptors, i, newValue) ==
  IF i > Len(interceptors) THEN [s |-> s, out |-> "change", v |-> newValue]
  ELSE LET change == interceptorResult(interceptors[i], newValue)
           s1 == logged(s, s.hist.calls, "interceptor", a, i, s.val[a], newValue)
       IN IF change.truthy /\ ~change.typed
          THEN [s |-> s1, out |-> "throw", v |-> InterceptError]
          ELSE IF ~change.truthy
               THEN [s |-> s1, out |-> "cancel", v |-> newValue]
               ELSE interceptLoop(s1, a, interceptors, i + 1, change.newValue)

\* C15 mutant: no finally, the invariant error leaves the slot at null
interceptChangeNoFinally(s, a, newValue) ==
  LET r == interceptLoop(untrackedStart(s), a, s.obs[a].interceptors, 1, newValue)
  IN IF r.out = "throw" THEN r
     ELSE [r EXCEPT !.s = untrackedEnd(r.s, s.gs.trackingDerivation)]

\* C14 mutant: a falsy change is passed on with its newValue
interceptChangeDeaf(s, a, newValue) ==
  LET r == interceptLoop(untrackedStart(s), a, s.obs[a].interceptors, 1, newValue)
  IN [r EXCEPT !.s = untrackedEnd(r.s, s.gs.trackingDerivation),
               !.out = IF @ = "cancel" THEN "change" ELSE @]

interceptChange(s, a, newValue) ==
  LET prevU == s.gs.trackingDerivation
      r == interceptLoop(untrackedStart(s), a, s.obs[a].interceptors, 1, newValue)
  IN [r EXCEPT !.s = untrackedEnd(r.s, prevU)]

\* C12 mutant: the flag is not looked at
checkAlwaysAllowed(s) == TRUE

\* TRUE when the invariant of checkIfStateModificationsAreAllowed holds
checkIfStateModificationsAreAllowed(s) == s.gs.allowStateChanges

deepEqual(v, w) == v = w \/ {v, w} \subseteq Boxes

referenceEnhancer(newValue, oldValue) == newValue

\* C16 mutant: the new value is stored whatever the old one
refStructEnhancerNew(v, oldValue) == v

refStructEnhancer(v, oldValue) == IF deepEqual(v, oldValue) THEN oldValue ELSE v

enhancer(kind, v, oldValue) ==
  IF kind = "struct" THEN refStructEnhancer(v, oldValue) ELSE referenceEnhancer(v, oldValue)

\* prepareNewValue: out is "throw" (v the cause), "cancel" (an interceptor
\* returned a falsy change: UNCHANGED), "unchanged" (UNCHANGED after the
\* enhancer) or "value" (v the value to store)
prepareNewValue(s, a, newValue) ==
  IF ~checkIfStateModificationsAreAllowed(s)
  THEN [s |-> s, out |-> "throw", v |-> StateChangeError]
  ELSE LET r == IF hasInterceptors(s, a) THEN interceptChange(s, a, newValue)
                ELSE [s |-> s, out |-> "change", v |-> newValue]
           v == enhancer(env.enhancer, r.v, s.val[a])
       IN IF r.out # "change" THEN r
          ELSE [s |-> r.s, out |-> IF s.val[a] # v THEN "value" ELSE "unchanged", v |-> v]

\* set: prepareNewValue, then setNewValue up to the endBatch of reportChanged
\* (reportChanged is startBatch, propagateChanged, endBatch)
SetStart ==
  /\ At("set", "start")
  /\ LET a == top.node
         call == IF env.logs THEN hist.calls + 1 ELSE 0
         p == prepareNewValue([Heap EXCEPT !.hist.calls = call], a, top.acc)
         e(type) == [Event(type, a) EXCEPT
                       !.v = top.acc,
                       !.snap = [obs |-> obs, der |-> der, val |-> val, gs |-> gs]]
     IN CASE p.out = "throw" ->
               Commit(p.s, rest, RetThrow(p.v), [e("setThrow") EXCEPT !.n = p.v])
          [] p.out = "cancel" -> Commit(p.s, rest, NoRet, e("setCancelled"))
          [] p.out = "unchanged" -> Commit(p.s, rest, NoRet, e("setUnchanged"))
          [] OTHER ->
               LET s1 == [p.s EXCEPT !.val[a] = p.v,
                                     !.hist.written = @ \cup {a},
                                     !.hist.dirty = @ \cup Range(obs[a].observers),
                                     !.hist.wasDirty = @ \cup Range(obs[a].observers)]
                   s2 == logged(s1, call, "assign", a, gs.inBatch, val[a], p.v)
                   s3 == logged(propagateChanged(startBatch(s2), a), call, "reportChanged", a,
                                gs.inBatch, val[a], p.v)
               IN Commit(s3,
                         <<Frame("endBatch", Null),
                           [top EXCEPT !.pc = "listeners", !.last = val[a], !.acc = p.v,
                                       !.call = call]>> \o rest,
                         NoRet,
                         [e("setChanged") EXCEPT !.pre = der, !.reads = gs.pendingReactions])

\* C17 mutant: the listener is given the new value as the old one
callListenerNewOnly(s, call, a, kind, n, oldValue, newValue, trigger) ==
  LET s1 == logged([s EXCEPT !.hist.heard = @ \cup {<<trigger, s.gs.trackingDerivation>>}],
                   call, "listener", a, n, newValue, newValue)
  IN IF kind = "read" THEN reportObserved(s1, a) ELSE s1

\* listener(change): a listener of kind "read" reads the observable value
\* (trigger: called by a write, or by observe with fireImmediately)
callListener(s, call, a, kind, n, oldValue, newValue, trigger) ==
  LET s1 == logged([s EXCEPT !.hist.heard = @ \cup {<<trigger, s.gs.trackingDerivation>>}],
                   call, "listener", a, n, oldValue, newValue)
  IN IF kind = "read" THEN reportObserved(s1, a) ELSE s1

\* notifyListeners without untrackedStart: the listeners are called in the
\* scope of the caller
notifyStartTracked(s) == s

\* notifyListeners up to the loop
notifyStart(s) == untrackedStart(s)

\* setNewValue after reportChanged: notifyListeners if there are listeners
SetListeners ==
  /\ At("set", "listeners")
  /\ IF hasListeners(Heap, top.node)
     THEN Commit(notifyStart(Heap),
                 <<[top EXCEPT !.pc = "notify", !.prev = gs.trackingDerivation, !.i = 0,
                               !.list = obs[top.node].changeListeners]>> \o rest,
                 NoRet, Event("notify", top.node))
     ELSE Commit(Heap, rest, NoRet, [Event("setDone", top.node) EXCEPT !.n = top.call])

\* the loop of notifyListeners over the copy of the listeners, untrackedEnd;
\* a listener that throws ends the call there
\* (flag: notifyListeners was called by a reaction itself; the event of an
\* exit carries the tracking derivation of before the call)
SetNotify ==
  /\ At("set", "notify")
  /\ IF top.i < Len(top.list)
     THEN LET s1 == callListener(Heap, top.call, top.node, top.list[top.i + 1], top.i + 1,
                                 top.last, top.acc, "write")
          IN IF top.list[top.i + 1] = "throw"
             THEN Commit(s1, rest, RetThrow(UserError),
                         [Event("listenerThrow", top.node) EXCEPT
                            !.n = top.i + 1, !.pre = <<top.prev>>])
             ELSE Commit(s1, <<[top EXCEPT !.i = @ + 1]>> \o rest, NoRet,
                         [Event("listener", top.node) EXCEPT !.n = top.i + 1])
     ELSE Commit(untrackedEnd(Heap, top.prev), rest, NoRet,
                 [Event(IF top.flag THEN "notifyDone" ELSE "setDone", top.node) EXCEPT
                    !.n = top.call, !.pre = <<top.prev>>])

\* the caller registers its handlers before it creates derivations, each
\* handler once
Registering == gs.runId = 0 /\ gs.inBatch = 0 /\ \A r \in Reactions : ~rx[r].created

\* observableValue.intercept(handler)
UserIntercept(a, kind) ==
  /\ Idle
  /\ Registering
  /\ a \in env.hatoms
  /\ kind \in env.ikinds
  /\ kind \notin Range(obs[a].interceptors)
  /\ Len(obs[a].interceptors) < MaxHandlers
  /\ Commit(registerInterceptor(beginOp(Heap), a, kind), <<>>, NoRet, Event("intercept", a))

\* observe(listener, fireImmediately): the listener is called at once when
\* fireImmediately is set, then registered
observe(s, a, kind, fireImmediately) ==
  registerListener(IF fireImmediately
                   THEN callListener(s, 0, a, kind, 0, Undefined, s.val[a], "observe")
                   ELSE s,
                   a, kind)

UserObserve(a, kind, fireImmediately) ==
  /\ Idle
  /\ Registering
  /\ a \in env.hatoms
  /\ kind \in env.lkinds
  /\ kind \notin Range(obs[a].changeListeners)
  /\ fireImmediately \in env.fires
  /\ Len(obs[a].changeListeners) < MaxHandlers
  /\ Commit(observe(beginOp(Heap), a, kind, fireImmediately), <<>>, NoRet,
            [Event("observe", a) EXCEPT !.n = IF fireImmediately THEN 1 ELSE 0])

\* useStrict(true): state changes are allowed in actions only
UserUseStrict ==
  /\ Idle
  /\ env.strict
  /\ gs.inBatch = 0
  /\ gs.allowStateChanges
  /\ Commit([beginOp(Heap) EXCEPT !.gs.allowStateChanges = FALSE], <<>>, NoRet,
            Event("useStrict", Null))

\* ------------------------------------------------------------ endBatch
onBecomeUnobserved(s, o) ==
  IF isComputedValue(o)
  THEN [clearObserving(s, o) EXCEPT !.val[o] = Undefined]
  ELSE s

\* the observables that only o observes
onlyObservedBy(s, o) ==
  IF isComputedValue(o)
  THEN {x \in Range(s.der[o].observing) : s.obs[x].observers = <<o>>}
  ELSE {}

\* C4 mutant: closing any batch closes them all
leaveBatchAll(s) == [s EXCEPT !.gs.inBatch = 0]

\* --globalState.inBatch
leaveBatch(s) == [s EXCEPT !.gs.inBatch = @ - 1]

EndBatchStart ==
  /\ At("endBatch", "start")
  /\ LET s1 == leaveBatch(Heap)
     IN IF s1.gs.inBatch # 0
        THEN Commit(s1, rest, NoRet, Event("endBatchInner", Null))
        ELSE LET s2 == [s1 EXCEPT !.hist.drainUnobs = [o \in Observables |-> 0],
                                  !.hist.owed = {}]
                 me == [top EXCEPT !.pc = "drain"]
             IN Commit(s2,
                       IF s2.gs.isRunningReactions \/ s2.gs.pendingReactions = <<>>
                       THEN <<me>> \o rest
                       ELSE <<Frame("runReactions", Null), me>> \o rest,
                       NoRet, Event("endBatchZero", Null))

\* C27 mutant: every queued observable is unobserved
isQueued(s, o) == TRUE

\* the test of the drain: nothing observes o now
isUnobserved(s, o) == Len(s.obs[o].observers) = 0

\* (hist.spared: the observables that were drained while they had an
\* observer and have not been unobserved since; the event carries the
\* number of observers found)
EndBatchDrain ==
  /\ At("endBatch", "drain")
  /\ LET list == gs.pendingUnobservations
     IN IF top.i < Len(list)
        THEN LET o == list[top.i + 1]
                 s1 == [Heap EXCEPT !.obs[o].isPendingUnobservation = FALSE]
                 fire == isUnobserved(s1, o)
                 s2 == IF fire
                       THEN [onBecomeUnobserved(s1, o) EXCEPT
                               !.hist.unobs[o] = Min2(@ + 1, 2),
                               !.hist.drainUnobs[o] = Min2(@ + 1, 2),
                               !.hist.owed = @ \cup onlyObservedBy(s1, o),
                               !.hist.spared = @ \ {o}]
                       ELSE [s1 EXCEPT !.hist.spared = @ \cup {o}]
             IN Commit(s2, <<[top EXCEPT !.i = @ + 1]>> \o rest, NoRet,
                       [Event(IF fire THEN "unobserved" ELSE "stillObserved", o) EXCEPT
                          !.n = Len(obs[o].observers),
                          !.v = IF o \in hist.spared THEN 1 ELSE 0])
        ELSE Commit([Heap EXCEPT !.gs.pendingUnobservations = <<>>], rest, NoRet,
                    Event("endBatchDone", Null))

\* -------------------------------------------------------- runReactions
\* C21 mutant: the second iteration is one too many
isCyclicSecond(iterations) == iterations >= 2

\* the test of the drain against its budget
isCyclic(iterations) == iterations = MAX_REACTION_ITERATIONS

RunReactionsStart ==
  /\ At("runReactions", "start")
  /\ Commit([Heap EXCEPT !.gs.isRunningReactions = TRUE],
            <<[top EXCEPT !.pc = "outer"]>> \o rest, NoRet, Event("runReactions", Null))

RunReactionsOuter ==
  /\ At("runReactions", "outer")
  /\ IF Len(gs.pendingReactions) > 0
     THEN LET cyclic == isCyclic(top.acc + 1)
          IN Commit([Heap EXCEPT !.gs.pendingReactions = <<>>,
                                 !.hist.cyclic = @ \/ cyclic],
                    <<[top EXCEPT !.pc = "inner", !.acc = @ + 1, !.i = 0,
                                  !.list = IF cyclic THEN <<>> ELSE gs.pendingReactions]>>
                      \o rest,
                    NoRet, Event(IF cyclic THEN "cyclic" ELSE "iteration", Null))
     ELSE Commit([Heap EXCEPT !.gs.isRunningReactions = FALSE], rest, NoRet,
                 Event("runReactionsDone", Null))

RunReactionsInner ==
  /\ At("runReactions", "inner")
  /\ IF top.i < Len(top.list)
     THEN Commit(Heap,
                 <<Frame("runReaction", top.list[top.i + 1]), [top EXCEPT !.i = @ + 1]>> \o rest,
                 NoRet, Event("call", top.list[top.i + 1]))
     ELSE Commit(Heap, <<[top EXCEPT !.pc = "outer"]>> \o rest, NoRet, Event("step", Null))

\* --------------------------------------------------------- shouldCompute
\* the branches of shouldCompute that return at once
shouldComputeNow(s, d) ==
  CASE s.der[d].dependenciesState = UP_TO_DATE -> "false"
    [] s.der[d].dependenciesState \in {NOT_TRACKING, STALE} -> "true"
    [] OTHER -> "check"

\* case POSSIBLY_STALE
ShouldComputeStart ==
  /\ At("shouldCompute", "start")
  /\ Commit(untrackedStart(Heap),
            <<[top EXCEPT !.pc = "loop", !.prev = gs.trackingDerivation, !.i = 0]>> \o rest,
            NoRet, Event("shouldCompute", top.node))

ShouldComputeLoop ==
  /\ At("shouldCompute", "loop")
  /\ LET d == top.node
         observing == der[d].observing
     IN IF top.i < Len(observing)
        THEN IF isComputedValue(observing[top.i + 1])
             THEN Commit(Heap,
                         <<Frame("get", observing[top.i + 1]),
                           [top EXCEPT !.pc = "after",
                                       !.list = Append(@, observing[top.i + 1])]>> \o rest,
                         NoRet, Event("call", observing[top.i + 1]))
             ELSE Commit(Heap, <<[top EXCEPT !.i = @ + 1]>> \o rest, NoRet, Event("step", d))
        ELSE Commit(untrackedEnd(changeDependenciesStateTo0(Heap, d), top.prev), rest,
                    RetBool(FALSE),
                    [Event("shouldComputeFalse", d) EXCEPT !.reads = top.list, !.n = top.i])

\* C26 mutant: only a throw ends the loop
changedOrThrew(s, d, threw) == threw

\* the two conditions under which the loop of shouldCompute returns true
\* after obj.get()
changedOrThrown(s, d, threw) == threw \/ s.der[d].dependenciesState = STALE

\* (the event of a return carries the dependencies evaluated, the index of
\* the last one, and whether its get threw)
ShouldComputeAfter ==
  /\ At("shouldCompute", "after")
  /\ LET d == top.node
     IN IF changedOrThrown(Heap, d, ret.kind = "throw")
        THEN Commit(untrackedEnd(Heap, top.prev), rest, RetBool(TRUE),
                    [Event("shouldComputeTrue", d) EXCEPT
                       !.reads = top.list, !.n = top.i + 1,
                       !.v = IF ret.kind = "throw" THEN 1 ELSE 0])
        ELSE Commit(Heap, <<[top EXCEPT !.pc = "loop", !.i = @ + 1]>> \o rest, NoRet,
                    Event("step", d))

\* ------------------------------------------------ Reaction.runReaction
RunReactionStart ==
  /\ At("runReaction", "start")
  /\ LET r == top.node
     IN IF rx[r].isDisposed
        THEN Commit([Heap EXCEPT !.hist.started = Append(@, r)], rest, NoRet,
                    [Event("reactionSkipped", r) EXCEPT !.snap = Snapshot(Heap)])
        ELSE LET s1 == startBatch([Heap EXCEPT !.rx[r].isScheduled = FALSE,
                                               !.hist.started = Append(@, r),
                                               !.hist.toldRun = @ \ {r}])
                 k == shouldComputeNow(s1, r)
                 e == [Event("reactionStart", r) EXCEPT !.n = gs.inBatch]
             IN CASE k = "false" -> Commit(s1, <<Frame("endBatch", Null)>> \o rest, NoRet, e)
                  [] k = "true" ->
                       Commit(s1, <<Frame("track", r), [top EXCEPT !.pc = "tracked"]>> \o rest,
                              NoRet, e)
                  [] OTHER ->
                       Commit(s1, <<Frame("shouldCompute", r), [top EXCEPT !.pc = "decided"]>> \o rest,
                              NoRet, e)

RunReactionDecided ==
  /\ At("runReaction", "decided")
  /\ IF ret.v = 1
     THEN Commit(Heap, <<Frame("track", top.node), [top EXCEPT !.pc = "tracked"]>> \o rest,
                 NoRet, Event("step", top.node))
     ELSE Commit(Heap, <<Frame("endBatch", Null)>> \o rest, NoRet,
                 Event("reactionNotRun", top.node))

RunReactionTracked ==
  /\ At("runReaction", "tracked")
  /\ LET r == top.node
         s1 == IF rx[r].isDisposed THEN clearObserving(Heap, r) ELSE Heap
         s2 == IF isCaughtException(ret.v)
               THEN [s1 EXCEPT !.hist.reported = @ \cup {<<r, causeOf(ret.v)>>}]
               ELSE s1
     IN Commit(s2, <<Frame("endBatch", Null)>> \o rest, NoRet, Event("reactionRan", r))

\* ---------------------------------------------------- ComputedValue.get
\* get: startBatch, reportObserved, recompute if shouldCompute, endBatch.
\* computeValue(track): state changes are not allowed while the function runs
\* C13 mutant: the function of a computed value runs with the flag as it is
GetComputeAllowing(s) ==
  Commit(s,
         <<Frame("track", top.node),
           [top EXCEPT !.pc = "computed", !.flag = s.gs.allowStateChanges]>> \o rest,
         NoRet, Event("step", top.node))

GetCompute(s) ==
  Commit([s EXCEPT !.gs.allowStateChanges = FALSE],
         <<Frame("track", top.node),
           [top EXCEPT !.pc = "computed", !.flag = s.gs.allowStateChanges]>> \o rest,
         NoRet, Event("step", top.node))

\* the cached value is the result; endBatch runs before it is returned
GetCached(s) ==
  Commit(s, <<Frame("endBatch", Null), [top EXCEPT !.pc = "ret", !.acc = s.val[top.node]]>> \o rest,
         NoRet, Event("step", top.node))

GetStart ==
  /\ At("get", "start")
  /\ LET c == top.node
         s1 == reportObserved(startBatch(Heap), c)
         k == shouldComputeNow(s1, c)
     IN CASE k = "false" -> GetCached(s1)
          [] k = "true" -> GetCompute(s1)
          [] OTHER -> Commit(s1, <<Frame("shouldCompute", c), [top EXCEPT !.pc = "decided"]>> \o rest,
                             NoRet, Event("step", c))

GetDecided ==
  /\ At("get", "decided")
  /\ IF ret.v = 1 THEN GetCompute(Heap) ELSE GetCached(Heap)

\* trackAndCompute returned: store the value, confirm the change to observers
GetComputed ==
  /\ At("get", "computed")
  /\ LET c == top.node
         changed == isCaughtException(ret.v) \/ val[c] # ret.v
         s1 == [Heap EXCEPT !.val[c] = ret.v, !.gs.allowStateChanges = top.flag]
         s2 == IF changed
               THEN propagateChangeConfirmed(
                      [s1 EXCEPT !.hist.dirty = @ \cup Range(obs[c].observers),
                                 !.hist.wasDirty = @ \cup Range(obs[c].observers)], c)
               ELSE s1
     IN Commit(s2, <<Frame("endBatch", Null), [top EXCEPT !.pc = "ret", !.acc = ret.v]>> \o rest,
               NoRet, [Event("computed", c) EXCEPT !.n = IF changed THEN 1 ELSE 0])

\* a caught exception is thrown again to the caller of get
GetRet ==
  /\ At("get", "ret")
  /\ IF isCaughtException(top.acc)
     THEN Commit(Heap, rest, RetThrow(causeOf(top.acc)), Event("gotThrow", top.node))
     ELSE Commit(Heap, rest, RetVal(top.acc), Event("got", top.node))

\* ------------------------------------------------- trackDerivedFunction
\* the number of the innermost call of set among the frames of stk, 0 if none
RECURSIVE InnermostSet(_)
InnermostSet(stk) ==
  IF stk = <<>> THEN 0
  ELSE IF Head(stk).fn = "set" THEN Head(stk).call ELSE InnermostSet(Tail(stk))

TrackStart ==
  /\ At("track", "start")
  /\ gs.runId < env.runs
  /\ LET d == top.node
         s1 == changeDependenciesStateTo0(Heap, d)
         s2 == [(IF d \in Reactions /\ InnermostSet(stack) # 0
                 THEN logged(s1, InnermostSet(stack), "reaction", d, 0, 0, 0) ELSE s1)
                  EXCEPT !.der[d].newObserving = <<>>,
                          !.der[d].unboundDepsCount = 0,
                          !.gs.runId = @ + 1,
                          !.der[d].runId = s1.gs.runId + 1,
                          !.gs.trackingDerivation = d,
                          !.hist.dirty = @ \ {d},
                          !.hist.toldRun = @ \ {d},
                          !.hist.ran = IF d \in Reactions
                                       THEN [@ EXCEPT ![d] = Min2(@ + 1, 2)] ELSE @]
     IN Commit(s2,
               <<[top EXCEPT !.pc = "body", !.prev = gs.trackingDerivation,
                             !.acc = IF isComputedValue(d) THEN initAcc(env.progs[d].fn) ELSE 0]>>
                 \o rest,
               NoRet,
               [Event("trackStart", d) EXCEPT !.n = der[d].dependenciesState, !.pre = hist.dirty])

\* the body of the tracked function is at a read of x: a computed follows
\* its program, a reaction reads what it likes, MaxOps operations a run
InBody == At("track", "body") /\ ret.kind # "throw"

AtRead(x) ==
  /\ InBody
  /\ IF isComputedValue(top.node)
     THEN /\ top.i < Len(env.progs[top.node].code)
          /\ env.progs[top.node].code[top.i + 1].op = "get"
          /\ env.progs[top.node].code[top.i + 1].x = x
     ELSE top.i < MaxOps /\ x \in env.rreads[top.node]

bodyFn(d) == IF isComputedValue(d) THEN env.progs[d].fn ELSE "last"

\* observableValue.get() in the body
\* (list: the observables read while the derivation was the tracking one)
TrackReadAtom(x) ==
  /\ AtRead(x)
  /\ Commit(reportObserved(Heap, x),
            <<[top EXCEPT !.i = @ + 1, !.acc = apply(bodyFn(top.node), @, val[x]),
                          !.last = val[x],
                          !.list = IF gs.trackingDerivation = top.node
                                   THEN Append(@, x) ELSE @]>> \o rest,
            NoRet, [Event("read", x) EXCEPT !.n = val[x]])

\* computedValue.get() in the body
TrackReadComputed(x) ==
  /\ AtRead(x)
  /\ Commit(Heap,
            <<Frame("get", x), [top EXCEPT !.pc = "got", !.list = Append(@, x)]>> \o rest,
            NoRet, Event("call", x))

TrackGot ==
  /\ At("track", "got")
  /\ ret.kind # "throw"
  /\ Commit(Heap,
            <<[top EXCEPT !.pc = "body", !.i = @ + 1,
                          !.acc = apply(bodyFn(top.node), @, ret.v), !.last = ret.v]>> \o rest,
            NoRet, [Event("read", Last(top.list)) EXCEPT !.n = ret.v])

TrackBranch ==
  /\ InBody
  /\ isComputedValue(top.node)
  /\ top.i < Len(env.progs[top.node].code)
  /\ env.progs[top.node].code[top.i + 1].op = "ifz"
  /\ Commit(Heap,
            <<[top EXCEPT !.i = IF top.last = 0
                                THEN @ + 1 + env.progs[top.node].code[top.i + 1].n
                                ELSE @ + 1]>> \o rest,
            NoRet, Event("step", top.node))

\* observableValue.set(v) in the body
TrackWrite(a, v) ==
  /\ InBody
  /\ IF isComputedValue(top.node)
     THEN /\ top.i < Len(env.progs[top.node].code)
          /\ env.progs[top.node].code[top.i + 1] = Put(a, v)
     ELSE /\ top.i < MaxOps
          /\ a \in env.rwrites[top.node]
          /\ v \in env.uvals
  /\ Commit(Heap, <<[Frame("set", a) EXCEPT !.acc = v], [top EXCEPT !.i = @ + 1]>> \o rest,
            NoRet, Event("call", a))

\* observableValue.observe(listener, true) in the body of a reaction; a
\* listener that reads the value reads it in this run
TrackObserve(a, kind) ==
  /\ InBody
  /\ top.node \in env.robserve
  /\ top.i < MaxOps
  /\ a \in env.hatoms
  /\ kind \in env.lkinds
  /\ kind \notin Range(obs[a].changeListeners)
  /\ Len(obs[a].changeListeners) < MaxHandlers
  /\ Commit(observe(Heap, a, kind, TRUE),
            <<[top EXCEPT !.i = @ + 1,
                          !.list = IF kind = "read" THEN Append(@, a) ELSE @]>> \o rest,
            NoRet, [Event("observe", a) EXCEPT !.n = 1])

\* untracked(action): the action reads x or throws
untracked(s, action, x) ==
  LET prev == s.gs.trackingDerivation
      s1 == untrackedStart(s)
  IN IF action = "throw"
     THEN [s |-> s1, out |-> "throw", v |-> UserError]
     ELSE [s |-> untrackedEnd(reportObserved(s1, x), prev), out |-> "value", v |-> s.val[x]]

\* untracked(action) in the body of a reaction
\* (flag: this run has called untracked; the event carries the tracking derivation of before the call, and the
\* observers of x, which the action read)
TrackUntracked(action, x) ==
  /\ InBody
  /\ top.node \in env.runtracked
  /\ top.i < MaxOps
  /\ x \in env.rreads[top.node]
  /\ LET r == untracked(Heap, action, x)
     IN Commit(r.s, <<[top EXCEPT !.i = @ + 1, !.flag = TRUE]>> \o rest,
               IF r.out = "throw" THEN RetThrow(r.v) ELSE NoRet,
               [Event(IF r.out = "throw" THEN "untrackedThrow" ELSE "untracked", x) EXCEPT
                  !.pre = <<gs.trackingDerivation>>,
                  !.reads = obs[x].observers,
                  !.v = Len(der[top.node].newObserving)])

\* notifyListeners(a, change) called by the body of a reaction: without a
\* listener list (none was registered) the call returns at once
TrackNotify(a) ==
  /\ InBody
  /\ top.node \in env.rnotify
  /\ top.i < MaxOps
  /\ IF obs[a].changeListeners = <<>>
     THEN Commit(notifyStart(Heap), <<[top EXCEPT !.i = @ + 1]>> \o rest, NoRet,
                 [Event("notifyNull", a) EXCEPT !.pre = <<gs.trackingDerivation>>])
     ELSE Commit(notifyStart(Heap),
                 <<[Frame("set", a) EXCEPT !.pc = "notify", !.prev = gs.trackingDerivation,
                                           !.list = obs[a].changeListeners,
                                           !.last = val[a], !.acc = val[a], !.flag = TRUE],
                   [top EXCEPT !.i = @ + 1]>> \o rest,
                 NoRet, Event("notify", a))

\* a call made by the body of a reaction threw, and the body catches it
TrackCatch ==
  /\ At("track", "body")
  /\ ret.kind = "throw"
  /\ top.node \in env.rcatches
  /\ Commit(Heap, stack, NoRet, Event("caught", top.node))

\* C11 mutant: the exception leaves trackDerivedFunction as it came
trackEndUncaught(s, d, prev, result) ==
  IF isCaughtException(result) THEN s
  ELSE bindDependencies([s EXCEPT !.gs.trackingDerivation = prev], d)

\* the end of trackDerivedFunction, whichever way the function ended:
\* restore the tracking slot, bind the dependencies
trackEnd(s, d, prev, result) ==
  bindDependencies([s EXCEPT !.gs.trackingDerivation = prev], d)

\* trackDerivedFunction returns result, a value or a CaughtException
TrackReturn(result) ==
  LET d == top.node
      threw == isCaughtException(result)
      s1 == [Heap EXCEPT !.hist.everRead[d] = @ \cup Range(top.list),
                         !.hist.threw = IF threw THEN @ \cup {d} ELSE @ \ {d},
                         !.hist.recovered = IF ~threw /\ d \in hist.threw
                                            THEN @ \cup {d} ELSE @ \ {d}]
  IN Commit(trackEnd(s1, d, top.prev, result),
            rest, RetVal(result),
            [Event("tracked", d) EXCEPT
               !.reads = top.list,
               !.pre = SubSeq(der[d].newObserving, 1, der[d].unboundDepsCount),
               !.n = result])

\* the function returns
TrackFinish ==
  /\ InBody
  /\ isComputedValue(top.node) => top.i >= Len(env.progs[top.node].code)
  /\ TrackReturn(top.acc)

\* a throw statement of the function: if (last === 0) throw in a computed
\* value, a throw wherever it likes in a reaction that throws
TrackThrow ==
  /\ InBody
  /\ IF isComputedValue(top.node)
     THEN /\ top.i < Len(env.progs[top.node].code)
          /\ env.progs[top.node].code[top.i + 1].op = "throwz"
          /\ IF top.last = 0
             THEN TrackReturn(CaughtException(UserError))
             ELSE Commit(Heap, <<[top EXCEPT !.i = @ + 1]>> \o rest, NoRet,
                         Event("step", top.node))
     ELSE /\ top.node \in env.rthrows
          /\ TrackReturn(CaughtException(UserError))

\* a call made by the function threw, and the function does not catch it
TrackRethrow ==
  /\ stack # <<>>
  /\ top.fn = "track"
  /\ top.pc \in {"body", "got"}
  /\ ret.kind = "throw"
  /\ TrackReturn(CaughtException(ret.v))

Next ==
  \/ UserStartBatch
  \/ UserEndBatch
  \/ \E a \in Atoms, v \in AllValues : UserSet(a, v)
  \/ \E a \in Atoms : UserGetAtom(a)
  \/ \E c \in Computeds : UserGetComputed(c)
  \/ \E r \in Reactions : UserAutorun(r)
  \/ \E r \in Reactions : UserDispose(r)
  \/ \E a \in Atoms, k \in InterceptorKinds : UserIntercept(a, k)
  \/ \E a \in Atoms, k \in ListenerKinds, fire \in BOOLEAN : UserObserve(a, k, fire)
  \/ UserUseStrict
  \/ SetStart
  \/ SetListeners
  \/ SetNotify
  \/ EndBatchStart
  \/ EndBatchDrain
  \/ RunReactionsStart
  \/ RunReactionsOuter
  \/ RunReactionsInner
  \/ RunReactionStart
  \/ RunReactionDecided
  \/ RunReactionTracked
  \/ ShouldComputeStart
  \/ ShouldComputeLoop
  \/ ShouldComputeAfter
  \/ GetStart
  \/ GetDecided
  \/ GetComputed
  \/ GetRet
  \/ TrackStart
  \/ \E x \in Atoms : TrackReadAtom(x)
  \/ \E x \in Computeds : TrackReadComputed(x)
  \/ TrackGot
  \/ TrackBranch
  \/ \E a \in Atoms, v \in AllValues : TrackWrite(a, v)
  \/ \E a \in Atoms, k \in ListenerKinds : TrackObserve(a, k)
  \/ \E k \in UntrackedKinds, x \in Atoms : TrackUntracked(k, x)
  \/ \E a \in Atoms : TrackNotify(a)
  \/ TrackCatch
  \/ TrackFinish
  \/ TrackThrow
  \/ TrackRethrow

Spec == Init /\ [][Next]_vars

\* the model allows a behaviour env.runs runs of derivations: a call that
\* is about to start one more is not continued
Blocked == At("track", "start") /\ gs.runId >= env.runs

\* the caller has the turn, or the call in progress is not continued
AtRest == Idle \/ Blocked

\* the program is single-threaded and runs every call to its end: weak
\* fairness of Next, with the states in which no step of a call is enabled
\* written out as AtRest
FairSpec == Spec /\ ([]<>AtRest \/ []<><<Next>>_vars)

\* ================================================================ claims
Quiescent == gs.trackingDerivation = Null /\ gs.inBatch = 0

NoDuplicates(q) == Len(q) = Cardinality(Range(q))

\* the derivations whose function is running
Running == {stack[i].node : i \in {j \in DOMAIN stack : stack[j].fn = "track"}}

\* the flush of the pending reactions is on the stack
Flushing == \E i \in DOMAIN stack : stack[i].fn = "runReactions"

\* an endBatch that brought the depth to 0 has returned, outside every flush
OutermostReturned == ev.type = "endBatchDone" /\ ~Flushing

\* the reactions of this environment write no observable
NoWrites == \A r \in Reactions : env.rwrites[r] = {}

\* what d depends on, directly or through computed values (deps: a function
\* from derivations to records with an observing list)
Below(deps, S) == S \cup UNION {Range(deps[x].observing) : x \in S \cap Computeds}
DependsOn(deps, d) == Below(deps, Below(deps, Range(deps[d].observing)))

\* C1: whenever no derivation is tracking and the batch depth is 0, d is in
\* obs.observers if and only if obs is in d.observing, for every observable
\* obs and derivation d.
C1_BidirectionalConsistency ==
  Quiescent =>
    \A o \in Observables, d \in Derivations :
      (d \in Range(obs[o].observers)) <=> (o \in Range(der[d].observing))

\* C1 witness: a quiescent state in which a computed value has lost its last
\* observer and a derivation still observes something.
C1_Witness ==
  /\ Idle
  /\ Quiescent
  /\ hist.lost # {}
  /\ \E d \in Derivations : der[d].observing # <<>>

\* C2: when trackDerivedFunction returns, d.observing holds each observable
\* read in that run exactly once, in the order of first read.
C2_FirstReadOrder ==
  ev.type = "tracked" => der[ev.node].observing = Dedup(ev.reads)

\* C2 witness: a run returns whose newObserving held a duplicate.
C2_Witness ==
  /\ ev.type = "tracked"
  /\ ~NoDuplicates(ev.pre)

\* C3 as stated: lowestObserverState is at most the minimum dependenciesState
\* of the observers, for every observable, at every quiescent point and at
\* the start and end of every propagate call.
C3_EveryObservable ==
  /\ hist.losAll
  /\ Quiescent => \A o \in Observables : invariantLOS(Heap, o)

\* C3 amended: the bound holds for every observable at every quiescent point,
\* and at the start and end of every propagate call for the observable the
\* call is about.
C3_LowestObserverState ==
  /\ hist.losArg
  /\ Quiescent => \A o \in Observables : invariantLOS(Heap, o)

\* C3 witness: a reaction writes one of its own dependencies while running,
\* and the propagation has made it stale again.
C3_Witness ==
  /\ ev.type = "setChanged"
  /\ \E r \in Running \cap Reactions :
       /\ ev.node \in Range(der[r].observing)
       /\ der[r].dependenciesState = STALE

C5_FinalValues ==
  (ev.type = "read" /\ NoWrites) => ev.n = trueVal(env.progs, val, ev.node)

C7_Rebound ==
  /\ ev.type = "tracked" =>
       \A o \in Observables :
         (ev.node \in Range(obs[o].observers)) <=> (o \in Range(ev.reads))
  /\ ev.type = "setChanged" =>
       \A d \in Derivations :
         ev.node \in Range(ev.pre[d].observing) => der[d].dependenciesState = STALE

\* the write left d alone: same dependenciesState, not newly scheduled
C7_Untouched(d) ==
  /\ der[d].dependenciesState = ev.pre[d].dependenciesState
  /\ (d \in Range(gs.pendingReactions)) => (d \in Range(ev.reads))

\* C7 as stated: an observable read in an earlier run but not in the latest
\* one, when written, leaves d.dependenciesState alone and does not make d
\* run again.
C7_DroppedIsInert ==
  /\ C7_Rebound
  /\ ev.type = "setChanged" =>
       \A d \in Derivations \ Running :
         (ev.node \in hist.everRead[d] /\ ev.node \notin Range(ev.pre[d].observing))
           => C7_Untouched(d)

\* C7 amended: the write of an observable leaves d alone when d does not
\* depend on it, neither directly nor through the computed values d observes.
C7_DynamicDependencies ==
  /\ C7_Rebound
  /\ ev.type = "setChanged" =>
       \A d \in Derivations :
         ev.node \notin DependsOn(ev.pre, d) => C7_Untouched(d)

\* C7 witness: an observable that d read in an earlier run and dropped in
\* its latest one is written, and d is left alone.
C7_Witness ==
  /\ ev.type = "setChanged"
  /\ \E d \in Derivations \ Running :
       /\ ev.node \in hist.everRead[d]
       /\ der[d].observing # <<>>
       /\ ev.node \notin DependsOn(ev.pre, d)
       /\ der[d].dependenciesState = UP_TO_DATE

\* the queue is drained: nothing pending, no flag left, and what a fired
\* computed value alone observed has fired in the same drain
C8_Drained ==
  /\ gs.pendingUnobservations = <<>>
  /\ \A o \in Observables : ~obs[o].isPendingUnobservation
  /\ \A o \in hist.owed : obs[o].observers = <<>> /\ hist.drainUnobs[o] >= 1

\* c has been unobserved and holds no dependencies
C8_Suspended(c) ==
  /\ hist.unobs[c] >= 1
  /\ der[c].observing = <<>>
  /\ der[c].dependenciesState = NOT_TRACKING

\* C8 as stated: when the last observer of a computed value leaves during a
\* batch, the computed value is unobserved and cleared by the time the
\* outermost endBatch returns, and the queue is drained.
C8_Cascade ==
  OutermostReturned => C8_Drained /\ \A c \in hist.lost : C8_Suspended(c)

\* C8 amended: the same for a computed value that still has no observer
\* when the outermost endBatch returns.
C8_CascadeUnlessObserved ==
  OutermostReturned =>
    C8_Drained /\ \A c \in hist.lost : obs[c].observers = <<>> => C8_Suspended(c)

\* C8 witness: c lost its last observer, and c and the atom only c observed
\* have fired in one drain.
C8_Witness ==
  /\ OutermostReturned
  /\ "c" \in hist.lost
  /\ "a" \in hist.owed
  /\ hist.drainUnobs["c"] = 1
  /\ hist.drainUnobs["a"] = 1

C10_Undrained ==
  IF At("endBatch", "drain")
  THEN SubSeq(gs.pendingUnobservations, top.i + 1, Len(gs.pendingUnobservations))
  ELSE gs.pendingUnobservations

RECURSIVE TrackingIn(_)
TrackingIn(stk) ==
  IF stk = <<>> THEN Null
  ELSE IF Head(stk).fn = "track" THEN Head(stk).node
       ELSE IF Head(stk).fn = "shouldCompute" \/ (Head(stk).fn = "set" /\ Head(stk).pc = "notify")
            THEN Null
            ELSE TrackingIn(Tail(stk))

\* C11: when the function given to trackDerivedFunction throws, the call
\* returns a CaughtException with the cause, trackingDerivation is what it was
\* before the call, newObserving is null and what was read before the throw
\* is bound; a later write to one of these makes the derivation stale, and a
\* later run that does not throw yields the value of the function.
C11_ExceptionIsolation ==
  /\ ev.type = "tracked" => ret.kind = "val" /\ ret.v = ev.n
  /\ (ev.type = "tracked" /\ isCaughtException(ev.n)) =>
       /\ causeOf(ret.v) \in Causes
       /\ gs.trackingDerivation = TrackingIn(stack)
       /\ der[ev.node].newObserving = NullSeq
       /\ der[ev.node].observing = Dedup(ev.reads)
       /\ \A o \in Range(ev.reads) : ev.node \in Range(obs[o].observers)
  /\ ev.type = "setChanged" =>
       \A d \in hist.threw :
         ev.node \in Range(ev.pre[d].observing) => der[d].dependenciesState = STALE
  /\ (ev.type = "tracked" /\ ev.node \in hist.recovered \cap Computeds) =>
       ev.n = trueVal(env.progs, val, ev.node)

\* C11 witness: c threw after reading a, a was written, and the next run of
\* c returns the value of b.
C11_Witness ==
  /\ ev.type = "tracked"
  /\ ev.node = "c"
  /\ "c" \in hist.recovered
  /\ ev.reads = <<"a", "b">>
  /\ ev.n = 1
  /\ "a" \in hist.written
  /\ "r" \in Range(obs["c"].observers)

\* what call number k of set has called
CallLog(k) == SelectSeq(hist.log, LAMBDA e : e.call = k)

\* the ways a call of set ends or goes on after prepareNewValue
SetOutcomes == {"setThrow", "setCancelled", "setUnchanged", "setChanged"}

\* the call of set left everything as it was: the stored values, the
\* derivations, the observables and the pending queues
SetChangedNothing ==
  /\ val = ev.snap.val
  /\ der = ev.snap.der
  /\ obs = ev.snap.obs
  /\ gs = ev.snap.gs

\* C12: set called while allowStateChanges is false fails with the invariant
\* error before any interceptor runs; the stored value, every
\* dependenciesState, every lowestObserverState and the pending queues are
\* unchanged and no listener is invoked.
C12_DisallowedSetFails ==
  (ev.type \in SetOutcomes /\ ~ev.snap.gs.allowStateChanges) =>
    /\ ev.type = "setThrow"
    /\ ret = RetThrow(StateChangeError)
    /\ CallLog(hist.calls) = <<>>
    /\ SetChangedNothing

\* C12 witness: a failed set of another value on an observable value that
\* has an interceptor, a listener and an observer.
C12_Witness ==
  /\ ev.type = "setThrow"
  /\ ev.n = StateChangeError
  /\ ev.v # val[ev.node]
  /\ obs[ev.node].interceptors # <<>>
  /\ obs[ev.node].changeListeners # <<>>
  /\ obs[ev.node].observers # <<>>

\* C13 as stated: a call of set made while a derivation is tracking fails
\* and changes nothing, whether the derivation is a computed value or a
\* reaction.
C13_NoSetWhileTracking ==
  (ev.type \in SetOutcomes /\ ev.snap.gs.trackingDerivation # Null) =>
    ev.type = "setThrow" /\ ret.kind = "throw" /\ SetChangedNothing

\* C13 amended: a call of set made while a computed value is tracking fails
\* and changes nothing; made while a reaction is tracking it fails only if
\* allowStateChanges is false.
C13_NoSetInComputed ==
  /\ (ev.type \in SetOutcomes /\ ev.snap.gs.trackingDerivation \in Computeds) =>
       ev.type = "setThrow" /\ ret = RetThrow(StateChangeError) /\ SetChangedNothing
  /\ (ev.type = "setThrow" /\ ev.n = StateChangeError) => ~ev.snap.gs.allowStateChanges

\* C13 witness: the function of c calls b.set with another value, below a
\* reaction that is reading c.
C13_Witness ==
  /\ ev.type = "setThrow"
  /\ ev.snap.gs.trackingDerivation = "c"
  /\ ev.node = "b"
  /\ ev.v # val["b"]
  /\ "r" \in Running

\* the first interceptor of the list that does not hand a change on (the
\* length of the list plus one if every interceptor does)
FirstStop(list) ==
  CHOOSE i \in 1..(Len(list) + 1) :
    /\ i <= Len(list) => list[i] \in {"reject", "bad"}
    /\ \A j \in 1..(i - 1) : list[j] \notin {"reject", "bad"}

\* the interceptors 1 to k have been called, in this order, and nothing else
CalledInterceptors(k) ==
  LET log == CallLog(hist.calls)
  IN /\ Len(log) = k
     /\ \A i \in 1..k : log[i].what = "interceptor" /\ log[i].n = i

\* the call of set at hand was allowed and its first interceptor that hands
\* no change on is of this kind
StoppedBy(kind) ==
  /\ ev.type \in SetOutcomes
  /\ ev.snap.gs.allowStateChanges
  /\ LET list == ev.snap.obs[ev.node].interceptors
     IN FirstStop(list) <= Len(list) /\ list[FirstStop(list)] = kind

\* C14: when an interceptor returns a falsy value, no interceptor registered
\* after it is called, the stored value is unchanged, no derivation becomes
\* stale, no reaction is queued, no listener is called, and set returns
\* without an error.
C14_InterceptorRejection ==
  StoppedBy("reject") =>
    /\ ev.type = "setCancelled"
    /\ ret = NoRet
    /\ CalledInterceptors(FirstStop(ev.snap.obs[ev.node].interceptors))
    /\ SetChangedNothing

\* C14 witness: the first of two interceptors rejects the write of another
\* value to an observable value that has a listener and an observer.
C14_Witness ==
  /\ ev.type = "setCancelled"
  /\ ev.v # val[ev.node]
  /\ Len(obs[ev.node].interceptors) = 2
  /\ FirstStop(obs[ev.node].interceptors) = 1
  /\ obs[ev.node].changeListeners # <<>>
  /\ obs[ev.node].observers # <<>>

\* C15: when an interceptor returns a truthy value without a type,
\* interceptChange fails with the invariant error, no later interceptor is
\* called, the stored value and the dependency graph are unchanged, and
\* trackingDerivation is what it was before the call.
C15_InvalidInterceptorResult ==
  StoppedBy("bad") =>
    /\ ev.type = "setThrow"
    /\ ret = RetThrow(InterceptError)
    /\ CalledInterceptors(FirstStop(ev.snap.obs[ev.node].interceptors))
    /\ SetChangedNothing

\* C15 witness: a reaction calls set, and the first of two interceptors
\* returns an object without a type.
C15_Witness ==
  /\ ev.type = "setThrow"
  /\ ev.n = InterceptError
  /\ ev.snap.gs.trackingDerivation \in Reactions
  /\ gs.trackingDerivation \in Reactions
  /\ Len(obs[ev.node].interceptors) = 2
  /\ FirstStop(obs[ev.node].interceptors) = 1

\* the newValue of the change that the interceptors of list hand on from v
RECURSIVE HandedOn(_, _, _)
HandedOn(list, i, v) ==
  IF i > Len(list) THEN v
  ELSE HandedOn(list, i + 1, IF list[i] = "bump" THEN (v + 1) % (MaxVal + 1) ELSE v)

\* the call of set at hand was allowed, every interceptor handed a change on,
\* and the enhancer has the stored value as its result: the value handed on is
\* the stored one, or equal to it deeply under the struct enhancer
WritesTheSame ==
  /\ ev.type \in SetOutcomes
  /\ ev.snap.gs.allowStateChanges
  /\ LET list == ev.snap.obs[ev.node].interceptors
         v == HandedOn(list, 1, ev.v)
         old == ev.snap.val[ev.node]
     IN /\ FirstStop(list) > Len(list)
        /\ v = old \/ (env.enhancer = "struct" /\ deepEqual(v, old))

\* C16: when the value that the enhancer produces is the stored value, the
\* stored value, every dependenciesState, every lowestObserverState and the
\* pending reactions are unchanged and no listener is called.
C16_UnchangedWrite ==
  WritesTheSame =>
    /\ ev.type = "setUnchanged"
    /\ ret = NoRet
    /\ SetChangedNothing
    /\ CalledInterceptors(Len(ev.snap.obs[ev.node].interceptors))
    /\ Idle \/ top.fn # "set"

\* C16 witness: under the struct enhancer, an object equal to the stored one
\* and different from it is written to an observable value that has an
\* observer and a listener.
C16_Witness ==
  /\ ev.type = "setUnchanged"
  /\ ev.v # val[ev.node]
  /\ deepEqual(ev.v, val[ev.node])
  /\ obs[ev.node].observers # <<>>
  /\ obs[ev.node].changeListeners # <<>>

\* the place of an entry of the log in the order of a changing set
Rank(e) ==
  CASE e.what = "interceptor" -> 1
    [] e.what = "assign" -> 2
    [] e.what = "reportChanged" -> 3
    [] e.what = "reaction" -> 4
    [] OTHER -> 5

\* the entries of a log that are calls of this kind
Of(log, what) == SelectSeq(log, LAMBDA e : e.what = what)

\* C17: a changing set calls the interceptors in registration order, assigns
\* the value, reports the change (propagation, and the reactions when no
\* batch is open), and then calls every listener once, in registration
\* order, with the value stored before the write as oldValue and the value
\* stored by it as newValue.
C17_SetOrder ==
  /\ (ev.type = "setDone" /\ env.logs) =>
       LET log == CallLog(ev.n)
           a == ev.node
       IN /\ \A i, j \in DOMAIN log : i < j => Rank(log[i]) <= Rank(log[j])
          /\ Len(Of(log, "assign")) = 1
          /\ Len(Of(log, "reportChanged")) = 1
          /\ Len(Of(log, "interceptor")) = Len(obs[a].interceptors)
          /\ \A i \in DOMAIN Of(log, "interceptor") : Of(log, "interceptor")[i].n = i
          /\ Len(Of(log, "listener")) = Len(obs[a].changeListeners)
          /\ \A i \in DOMAIN Of(log, "listener") :
               /\ Of(log, "listener")[i].n = i
               /\ Of(log, "listener")[i].old = Of(log, "assign")[1].old
               /\ Of(log, "listener")[i].new = Of(log, "assign")[1].new
          /\ Of(log, "assign")[1].n > 0 => Of(log, "reaction") = <<>>
  /\ (stack # <<>> /\ top.fn = "set" /\ top.pc \in {"listeners", "notify"}
        /\ gs.inBatch = 0 /\ ~Flushing)
       => gs.pendingReactions = <<>>

\* C17 witness: a set outside every batch went through two interceptors,
\* made a reaction run and called two listeners.
C17_Witness ==
  /\ ev.type = "setDone"
  /\ Len(obs[ev.node].interceptors) = 2
  /\ obs[ev.node].changeListeners = <<"log", "read">>
  /\ Len(Of(CallLog(ev.n), "reaction")) = 1
  /\ Len(Of(CallLog(ev.n), "listener")) = 2

\* the atoms on which reaction r has called observe with fireImmediately
ObservedIn(r) == IF <<"observe", r>> \in hist.heard THEN env.hatoms ELSE {}

\* C18 as stated: every call of a listener, by a write or by observe with
\* fireImmediately, is made with trackingDerivation null, and what a
\* listener reads is no dependency of a derivation.
C18_ListenersUntracked ==
  /\ \A h \in hist.heard : h[2] = Null
  /\ \A r \in Reactions : Range(der[r].observing) \subseteq env.rreads[r]

\* what holds of the listeners (C18): every call of a listener by a write is
\* made with trackingDerivation null, and what such a listener reads is no
\* dependency of a derivation; observe with fireImmediately calls the
\* listener in the scope of its caller.
C18_WriteListenersUntracked ==
  /\ \A h \in hist.heard : h[1] = "write" => h[2] = Null
  /\ ev.type = "listener" => gs.trackingDerivation = Null
  /\ \A r \in Reactions : Range(der[r].observing) \subseteq env.rreads[r] \cup ObservedIn(r)

\* a reaction that reads nothing has written an observable value whose
\* listener reads it, and depends on nothing (C18, the listeners of a write)
C18_Witness ==
  /\ ev.type = "tracked"
  /\ ev.node \in Reactions
  /\ env.rreads[ev.node] = {}
  /\ <<"write", Null>> \in hist.heard
  /\ \E i \in DOMAIN hist.log : hist.log[i].what = "listener" /\ hist.log[i].call > 0
  /\ \E a \in Atoms : "read" \in Range(obs[a].changeListeners)
  /\ der[ev.node].observing = <<>>

\* p is the beginning of q
IsPrefix(p, q) == Len(p) <= Len(q) /\ p = SubSeq(q, 1, Len(p))

\* C19 as stated: the reactions made stale in one outermost batch are
\* executed when it closes, in the order in which they were enqueued; a
\* reaction is in pendingReactions at most once however often it became
\* stale; reactions enqueued during the drain run after the ones already
\* queued, in the same endBatch.
C19_ReactionsFifo ==
  /\ NoDuplicates(gs.pendingReactions)
  /\ IsPrefix(hist.started, hist.enq)
  /\ (OutermostReturned \/ ev.type = "runReactionsDone") =>
       gs.pendingReactions = <<>> /\ hist.started = hist.enq

\* C19 amended: the same, for every drain that ends within its budget of
\* iterations; the reactions still queued when the budget is used up are
\* not executed.
C19_FifoWithinBudget ==
  /\ NoDuplicates(gs.pendingReactions)
  /\ IsPrefix(hist.started, hist.enq)
  /\ (OutermostReturned \/ ev.type = "runReactionsDone") =>
       /\ gs.pendingReactions = <<>>
       /\ ~hist.cyclic => hist.started = hist.enq
       /\ hist.cyclic => Len(hist.started) < Len(hist.enq)

\* C19 witness: in one batch s was enqueued before r, r wrote what s reads
\* while the queue was drained, and the endBatch has returned with s run
\* after r a second time.
C19_Witness ==
  /\ OutermostReturned
  /\ Idle
  /\ hist.enq = <<"s", "r", "s">>
  /\ hist.wasDirty = {"r", "s"}

\* the program state is what it was before the call
SameAsBefore == Snapshot(Heap) = ev.snap

\* the reaction observes nothing and nothing has it as an observer
Detached(r) ==
  /\ der[r].observing = <<>>
  /\ der[r].dependenciesState = NOT_TRACKING
  /\ \A o \in Observables : r \notin Range(obs[o].observers)

\* C20: disposing a reaction removes it from the observers of everything it
\* observed, empties its observing and leaves it NOT_TRACKING; a queued
\* execution of a disposed reaction does nothing, and neither does a second
\* disposal; at quiescent points every NOT_TRACKING derivation has an empty
\* observing.
C20_Dispose ==
  /\ \A r \in Reactions :
       rx[r].isDisposed =>
         /\ Detached(r)
         /\ \A i \in DOMAIN stack : ~(stack[i].fn = "track" /\ stack[i].node = r)
  /\ ev.type = "reactionSkipped" => SameAsBefore
  /\ ev.type = "disposeAgain" => SameAsBefore /\ Idle
  /\ Quiescent =>
       \A d \in Derivations :
         der[d].dependenciesState = NOT_TRACKING => der[d].observing = <<>>

\* C20 witness: a reaction that observed something was made stale in a
\* batch, disposed twice while queued, and its queued execution was skipped.
C20_Witness ==
  /\ ev.type = "reactionSkipped"
  /\ ev.node \in hist.again
  /\ ev.node \in Range(hist.enq)
  /\ hist.everRead[ev.node] # {}

\* the iterations of the outer loop of the drain in progress
Iterations(stk) ==
  IF \E i \in DOMAIN stk : stk[i].fn = "runReactions"
  THEN stk[CHOOSE i \in DOMAIN stk : stk[i].fn = "runReactions"].acc
  ELSE 0

\* the drain has not run more than its budget; after the cyclic-reaction
\* error it runs no reaction; it ends with an empty queue
C21_DrainBounded ==
  /\ Iterations(stack) <= MAX_REACTION_ITERATIONS
  /\ ev.type = "cyclic" => Iterations(stack) = MAX_REACTION_ITERATIONS
  /\ hist.cyclic => \A i \in DOMAIN stack : stack[i].fn # "runReaction"
  /\ (~hist.cyclic /\ Flushing) => Iterations(stack) < MAX_REACTION_ITERATIONS
  /\ ev.type = "runReactionsDone" => gs.pendingReactions = <<>> /\ ~gs.isRunningReactions

\* C21: the reaction drain always terminates: reactions that make
\* themselves stale in every run are stopped by the cyclic-reaction error
\* after at most 100 iterations of the outer loop, and a drain in which
\* nothing is made stale again ends with pendingReactions empty.
C21_DrainTerminates ==
  /\ []C21_DrainBounded
  /\ Flushing ~> (~Flushing \/ Blocked)

\* C21 witness: the drain was stopped by the cyclic-reaction error in its
\* 100th iteration and has returned.
C21_Witness ==
  /\ ev.type = "runReactionsDone"
  /\ hist.cyclic
  /\ hist.started = [i \in 1..(MAX_REACTION_ITERATIONS - 1) |-> "r"]

\* the derivations whose functions are running
TrackedOnStack == {stack[i].node : i \in {j \in DOMAIN stack : stack[j].fn = "track"}}

\* C22: with no derivation tracking (outside every derivation or in an
\* untracked scope) reportObserved changes no observers, observing,
\* newObserving, unboundDepsCount or lastAccessedBy; at most it queues the
\* observable for unobservation, and only one without observers.
C22_UntrackedReportObserved == hist.untracked

\* C22 witness: a listener called by notifyListeners, in the write of a
\* running reaction, has read the observable: the reaction has not recorded
\* it, and the observable, which has an observer, is not queued.
C22_Witness ==
  /\ At("set", "notify")
  /\ ev.type = "listener"
  /\ top.list[top.i] = "read"
  /\ gs.trackingDerivation = Null
  /\ TrackedOnStack # {}
  /\ \A d \in TrackedOnStack : top.node \notin Range(der[d].newObserving)
  /\ Len(obs[top.node].observers) > 0
  /\ ~obs[top.node].isPendingUnobservation

C24_StalenessRises ==
  hist.rises /\ hist.allStale /\ hist.toldOk /\ ~hist.toldTwice

\* C24, amended: the same, with "at most once between two moments at which
\* the derivation is set to UP_TO_DATE" (by a run, or by a shouldCompute that
\* found no dependency changed) in place of "between two runs".
C24_StalenessRisesUntilReset ==
  hist.rises /\ hist.allStale /\ hist.toldOk

\* C24 witness: propagateChanged has told d and made it STALE, and then made
\* a computed value that d observes pass POSSIBLY_STALE on to its observers,
\* d among them.
C24_Witness ==
  \E d \in Derivations : \E c \in Computeds :
    /\ der[d].dependenciesState = STALE
    /\ d \in hist.told
    /\ c \in Range(der[d].observing)
    /\ obs[c].lowestObserverState = POSSIBLY_STALE

\* C25: when propagateChangeConfirmed(obs) returns and an observer of obs is
\* UP_TO_DATE, obs.lowestObserverState is UP_TO_DATE; and no propagateChanged
\* or propagateMaybeChanged call returns leaving an observer of its
\* observable UP_TO_DATE, so none was short-circuited past such an observer.
C25_NoLockAtStale == hist.noLock /\ hist.noneFresh

\* C25 witness: the computed value c has just been recomputed to a new value
\* inside the run of d, which observed c before; propagateChangeConfirmed(c)
\* has returned, d is UP_TO_DATE and c.lowestObserverState is UP_TO_DATE.
C25_Witness ==
  /\ ev.type = "computed" /\ ev.n = 1
  /\ gs.trackingDerivation # Null
  /\ gs.trackingDerivation \in Range(obs[ev.node].observers)
  /\ der[gs.trackingDerivation].dependenciesState = UP_TO_DATE
  /\ obs[ev.node].lowestObserverState = UP_TO_DATE

\* the computed values among the first n entries of q, in their order
ComputedsOf(q, n) == SelectSeq(SubSeq(q, 1, n), isComputedValue)

\* the calls of shouldCompute that are in their loop
Checking == {i \in DOMAIN stack : stack[i].fn = "shouldCompute" /\ stack[i].pc # "start"}

\* C26: shouldCompute(d) enters its loop only for d POSSIBLY_STALE (for d
\* UP_TO_DATE it answers false at once, with no effect on the state); the
\* loop calls get on the computed values of d.observing in their order and
\* goes on only while d is not STALE and no get has thrown; it returns true
\* at the first dependency after which d is STALE or whose get threw, with
\* no later dependency evaluated, and false, with d UP_TO_DATE, after all of
\* them; at every return trackingDerivation is what it was before the call.
C26_ShouldCompute ==
  /\ At("shouldCompute", "start") =>
       /\ der[top.node].dependenciesState = POSSIBLY_STALE
       /\ shouldComputeNow(Heap, top.node) = "check"
  /\ \A d \in Derivations :
       der[d].dependenciesState = UP_TO_DATE => shouldComputeNow(Heap, d) = "false"
  /\ \A i \in Checking :
       stack[i].list = ComputedsOf(der[stack[i].node].observing,
                                   IF stack[i].pc = "after" THEN stack[i].i + 1 ELSE stack[i].i)
  /\ At("shouldCompute", "loop") => der[top.node].dependenciesState = POSSIBLY_STALE
  /\ ev.type = "shouldComputeTrue" =>
       /\ ret = RetBool(TRUE)
       /\ ev.reads = ComputedsOf(der[ev.node].observing, ev.n)
       /\ isComputedValue(der[ev.node].observing[ev.n])
       /\ ev.v = 1 \/ der[ev.node].dependenciesState = STALE
       /\ gs.trackingDerivation = TrackingIn(stack)
  /\ ev.type = "shouldComputeFalse" =>
       /\ ret = RetBool(FALSE)
       /\ ev.reads = ComputedsOf(der[ev.node].observing, Len(der[ev.node].observing))
       /\ der[ev.node].dependenciesState = UP_TO_DATE
       /\ gs.trackingDerivation = TrackingIn(stack)

\* C26 witness: shouldCompute has returned true at a computed dependency
\* whose new value made the derivation STALE, and a later computed
\* dependency has not been evaluated.
C26_Witness ==
  /\ ev.type = "shouldComputeTrue" /\ ev.v = 0
  /\ \E j \in (ev.n + 1)..Len(der[ev.node].observing) :
       isComputedValue(der[ev.node].observing[j])

\* C26, the throwing dependency: shouldCompute has returned true because the
\* get of a dependency threw.
C26_WitnessThrow == ev.type = "shouldComputeTrue" /\ ev.v = 1

\* C26, the tracking slot: shouldCompute has returned inside the run of a
\* derivation, which is the tracking derivation again.
C26_WitnessTracking ==
  /\ ev.type \in {"shouldComputeTrue", "shouldComputeFalse"}
  /\ gs.trackingDerivation # Null

\* C27: the drain of endBatch calls onBecomeUnobserved on a queued observable
\* only if it has no observer at that moment; one that has an observer is
\* left as it is (a computed value keeps its value and its dependencies) and
\* its isPendingUnobservation flag is cleared; when it has lost its last
\* observer afterwards, it is in the queue with its flag set until a drain
\* unobserves it.
C27_UnobservedOnlyIfUnused ==
  /\ ev.type = "unobserved" =>
       /\ ev.n = 0
       /\ obs[ev.node].observers = <<>>
       /\ ~obs[ev.node].isPendingUnobservation
  /\ ev.type = "stillObserved" =>
       /\ ev.n > 0
       /\ obs[ev.node].observers # <<>>
       /\ ~obs[ev.node].isPendingUnobservation
       /\ isComputedValue(ev.node) =>
            /\ der[ev.node].dependenciesState # NOT_TRACKING
            /\ der[ev.node].observing # <<>>
            /\ val[ev.node] # Undefined
  /\ \A o \in hist.spared :
       obs[o].observers = <<>> =>
         /\ obs[o].isPendingUnobservation
         /\ o \in Range(gs.pendingUnobservations)

\* C27 witness: an observable that an earlier drain found observed, and left
\* alone, has lost its last observer and has now been unobserved.
C27_Witness ==
  /\ ev.type = "unobserved" /\ ev.v = 1
  /\ isComputedValue(ev.node)
  /\ der[ev.node].dependenciesState = NOT_TRACKING

\* the ways in which a call of notifyListeners ends: after the last listener,
\* at once for want of a listener list, at a listener that throws
NotifyExits == {"setDone", "notifyDone", "notifyNull", "listenerThrow"}

\* C28 as stated: at every exit of notifyListeners, the one without a
\* listener list and the one by a throwing listener included,
\* trackingDerivation is what it was before the call.
C28_NotifyRestores ==
  (ev.type \in NotifyExits /\ ev.pre # <<>>) => gs.trackingDerivation = ev.pre[1]

\* what holds of notifyListeners (C28): a call that reaches the end of its
\* loop leaves trackingDerivation as it was before the call, and every
\* listener is called with trackingDerivation null.
C28_RestoredAfterLoop ==
  /\ (ev.type \in {"setDone", "notifyDone"} /\ ev.pre # <<>>) =>
       gs.trackingDerivation = ev.pre[1]
  /\ ev.type \in {"listener", "listenerThrow"} => gs.trackingDerivation = Null

\* C28, the case: notifyListeners, called in the run of a reaction, has ended
\* at a listener that threw, or for want of a listener list.
C28_Witness ==
  /\ ev.type \in {"notifyNull", "listenerThrow"}
  /\ ev.pre[1] \in Reactions

\* C29 as stated: untracked(action) runs the action with trackingDerivation
\* null (what the action reads gets no observer and is not recorded) and at
\* every exit, the one by a throwing action included, trackingDerivation is
\* what it was before the call, so that what a derivation reads after its
\* call of untracked is recorded.
C29_UntrackedRestores ==
  /\ ev.type \in {"untracked", "untrackedThrow"} => gs.trackingDerivation = ev.pre[1]
  /\ ev.type = "untracked" =>
       /\ obs[ev.node].observers = ev.reads
       /\ Len(der[top.node].newObserving) = ev.v
  /\ (At("track", "body") /\ top.flag /\ ev.type = "read") =>
       /\ gs.trackingDerivation = top.node
       /\ top.list # <<>> /\ Last(top.list) = ev.node

\* what holds of untracked (C29): the action runs with trackingDerivation
\* null, and a call whose action returns leaves trackingDerivation as it was
\* before the call.
C29_RestoredAfterReturn ==
  /\ ev.type = "untracked" =>
       /\ gs.trackingDerivation = ev.pre[1]
       /\ obs[ev.node].observers = ev.reads
       /\ Len(der[top.node].newObserving) = ev.v
  /\ ev.type = "untrackedThrow" => gs.trackingDerivation = Null

\* C29, the case: the action of untracked threw in the run of a reaction,
\* the reaction caught the exception and has read an observable value since.
C29_Witness ==
  /\ At("track", "body") /\ top.flag /\ ev.type = "read"
  /\ gs.trackingDerivation = Null

====
